---- MODULE Spec2Model ----
(***************************************************************************)
(* A model of GelElectrophoresisAnalyzer and process_gel_image             *)
(* (src/gel_analysis.py).                                                  *)
(*                                                                         *)
(* The analyzer's fields are the variables image, processed_image, lanes   *)
(* and bands.  Python values are modelled as follows.                      *)
(*   - None is the record NoneVal; every other value that may stand where  *)
(*     None may stand is a record too.                                     *)
(*   - A dict is a sequence of [key, value] entries in insertion order.    *)
(*   - A list is a sequence; Python's 0-based index i is position i + 1.   *)
(*   - similarity_score, a float rounded to 2 decimals, is the integer     *)
(*     number of hundredths of a percent (40.0 is 4000).                   *)
(*   - Profile samples, which the code holds as floats, are integers; the  *)
(*     75th percentile is kept exactly as four times its value.            *)
(* The numeric library calls (cv2, numpy means, scipy gaussian_filter1d    *)
(* and find_peaks) are the environment: what they return is drawn from     *)
(* the outcomes their contracts allow.  self.gray and self.lane_width,     *)
(* which no method reads back, are not kept.                               *)
(*                                                                         *)
(* Specifications:                                                         *)
(*   Spec         the analyzer's methods called in any order               *)
(*   SpecCompare  compare_lanes on the band maps detection can leave       *)
(*   SpecProcess  one call of process_gel_image, statement by statement    *)
(*   SpecLanes    detect_lanes over grid widths, gap columns, lane counts  *)
(*   SpecBands    detect_bands_in_lane over profiles and peak sets         *)
(*   SpecMeasure  measure_bands over ladders, ladder ids and roundings     *)
(*   SpecOrder    the loop of detect_all_bands, its lanes in any order     *)
(*   SpecSession  Spec with measure_bands among the calls                  *)
(***************************************************************************)
EXTENDS Integers, Sequences, FiniteSets, TLC

VARIABLES
    image,            \* self.image: NoneVal or the decoded image
    processed_image,  \* self.processed_image: NoneVal or the blurred grid
    lanes,            \* self.lanes: list of lane dicts
    bands,            \* self.bands: dict lane id -> list of band dicts
    scan,             \* environment: what the numeric front end answered
                      \* for the regions the last band detection read
    result,           \* the last call: [op, args, ret]; in SpecProcess
                      \* the frame of process_gel_image
    pc                \* position inside process_gel_image

vars == <<image, processed_image, lanes, bands, scan, result, pc>>

----------------------------------------------------------------------------
(* Python values *)

NoneVal == [kind |-> "None"]

Raised(error) == [kind |-> "raised", error |-> error]

Abs(x) == IF x < 0 THEN -x ELSE x

Min2(a, b) == IF a < b THEN a ELSE b

Max2(a, b) == IF a > b THEN a ELSE b

SeqRange(s) == {s[i] : i \in DOMAIN s}

(* dict: `k in d`, d[k], d[k] = v, d.get(k, default) *)
DictKeys(d) == {d[i].key : i \in DOMAIN d}

DictHas(d, k) == k \in DictKeys(d)

DictGet(d, k) == d[CHOOSE i \in DOMAIN d : d[i].key = k].value

DictSet(d, k, v) ==
    IF DictHas(d, k)
    THEN [i \in DOMAIN d |-> IF d[i].key = k THEN [key |-> k, value |-> v] ELSE d[i]]
    ELSE Append(d, [key |-> k, value |-> v])

----------------------------------------------------------------------------
(* Program constants *)

MinImageSize == 100

DefaultNumLanes == 6

LaneDistanceDivisor == 20

MinBandDistance == 10

DefaultTolerance == 10

ScoreDecimals == 100

----------------------------------------------------------------------------
(* Band and lane records *)

\* The band dict appended for peak number i (0-based) of a lane whose rows
\* start at y1: local rows become global rows.
Band(i, peak, intensity, left_bound, right_bound, y1, lane_id) ==
    [id |-> i,
     position |-> peak + y1,
     intensity |-> intensity,
     width |-> right_bound - left_bound,
     top |-> left_bound + y1,
     bottom |-> right_bound + y1,
     lane_id |-> lane_id]

\* The lane dict made for boundary pair i (0-based).
Lane(i, x1, x2, height) ==
    [id |-> i, x1 |-> x1, x2 |-> x2, y1 |-> 0, y2 |-> height, width |-> x2 - x1]

----------------------------------------------------------------------------
(* compare_lanes *)

\* `continue` of the inner loop: lane2 index i was taken by an earlier band1.
AlreadyUsedMut(i, used) == FALSE

AlreadyUsed(i, used) == i \in used

\* distance = abs(band1['position'] - band2['position'])
BandDistanceMut(band1, band2) == band1.position - band2.position

BandDistance(band1, band2) == Abs(band1.position - band2.position)

\* distance <= tolerance_pixels and distance < best_distance; best = 0 is
\* best_match None, when best_distance is float('inf').
IsBetterMut(distance, tolerance_pixels, best, best_distance) ==
    best = 0 \/ distance < best_distance

IsBetterStrictMut(distance, tolerance_pixels, best, best_distance) ==
    distance < tolerance_pixels /\ (best = 0 \/ distance < best_distance)

IsBetterLastMut(distance, tolerance_pixels, best, best_distance) ==
    distance <= tolerance_pixels /\ (best = 0 \/ distance <= best_distance)

IsBetterFlippedMut(distance, tolerance_pixels, best, best_distance) ==
    distance >= tolerance_pixels /\ (best = 0 \/ distance < best_distance)

IsBetter(distance, tolerance_pixels, best, best_distance) ==
    distance <= tolerance_pixels /\ (best = 0 \/ distance < best_distance)

\* The inner loop over enumerate(bands2), from index i on.
RECURSIVE ScanLane2(_, _, _, _, _, _, _)
ScanLane2(band1, bands2, used, tolerance_pixels, i, best, best_distance) ==
    IF i > Len(bands2)
    THEN [best_match |-> best, best_distance |-> best_distance]
    ELSE IF AlreadyUsed(i, used)
    THEN ScanLane2(band1, bands2, used, tolerance_pixels, i + 1, best, best_distance)
    ELSE LET distance == BandDistance(band1, bands2[i])
         IN  IF IsBetter(distance, tolerance_pixels, best, best_distance)
             THEN ScanLane2(band1, bands2, used, tolerance_pixels, i + 1, i, distance)
             ELSE ScanLane2(band1, bands2, used, tolerance_pixels, i + 1, best, best_distance)

\* The outer loop over bands1, from index k on.
RECURSIVE MatchLoop(_, _, _, _, _, _, _)
MatchLoop(bands1, bands2, tolerance_pixels, k, used, matches, unique_lane1) ==
    IF k > Len(bands1)
    THEN [matches |-> matches, unique_lane1 |-> unique_lane1, used_bands2 |-> used]
    ELSE LET band1 == bands1[k]
             found == ScanLane2(band1, bands2, used, tolerance_pixels, 1, 0, 0)
         IN  IF found.best_match # 0
             THEN MatchLoop(bands1, bands2, tolerance_pixels, k + 1,
                            used \cup {found.best_match},
                            Append(matches, [band1 |-> band1,
                                             band2 |-> bands2[found.best_match],
                                             distance |-> found.best_distance]),
                            unique_lane1)
             ELSE MatchLoop(bands1, bands2, tolerance_pixels, k + 1, used, matches,
                            Append(unique_lane1, band1))

\* Remaining bands in lane2 are unique.
UniqueLane2Mut(bands2, used) == bands2

UniqueLane2(bands2, used) ==
    LET F[i \in 0..Len(bands2)] ==
            IF i = 0 THEN << >>
            ELSE IF i \notin used THEN Append(F[i - 1], bands2[i]) ELSE F[i - 1]
    IN F[Len(bands2)]

\* round(x, 2) of the non-negative quotient num / den, in hundredths.
RoundHalfEven(num, den) ==
    LET q == num \div den
        r == num % den
    IN  IF 2 * r < den THEN q
        ELSE IF 2 * r > den THEN q + 1
        ELSE IF q % 2 = 0 THEN q ELSE q + 1

\* matched_bands / total_bands * 100 if total_bands > 0 else 0, rounded.
SimilarityScoreMut(n_matches, total_bands) ==
    IF total_bands > 0
    THEN RoundHalfEven(n_matches * 100 * ScoreDecimals, total_bands)
    ELSE 0

SimilarityScoreEmptyMut(n_matches, total_bands) ==
    IF total_bands > 0
    THEN RoundHalfEven(n_matches * 2 * 100 * ScoreDecimals, total_bands)
    ELSE 100 * ScoreDecimals

SimilarityScore(n_matches, total_bands) ==
    LET matched_bands == n_matches * 2
    IN  IF total_bands > 0
        THEN RoundHalfEven(matched_bands * 100 * ScoreDecimals, total_bands)
        ELSE 0

\* `lane1_id not in self.bands or lane2_id not in self.bands`
NotComparableMut(d, lane1_id, lane2_id) == ~DictHas(d, lane1_id)

NotComparable(d, lane1_id, lane2_id) == ~DictHas(d, lane1_id) \/ ~DictHas(d, lane2_id)

compare_lanes(d, lane1_id, lane2_id, tolerance_pixels) ==
    IF NotComparable(d, lane1_id, lane2_id)
    THEN NoneVal
    ELSE IF ~DictHas(d, lane1_id) \/ ~DictHas(d, lane2_id)
    THEN Raised("KeyError")       \* self.bands[lane_id] of an absent key
    ELSE LET bands1 == DictGet(d, lane1_id)
             bands2 == DictGet(d, lane2_id)
             m == MatchLoop(bands1, bands2, tolerance_pixels, 1, {}, << >>, << >>)
         IN  [kind |-> "comparison",
              lane1_id |-> lane1_id,
              lane2_id |-> lane2_id,
              similarity_score |-> SimilarityScore(Len(m.matches), Len(bands1) + Len(bands2)),
              matches |-> m.matches,
              unique_lane1 |-> m.unique_lane1,
              unique_lane2 |-> UniqueLane2(bands2, m.used_bands2),
              total_bands_lane1 |-> Len(bands1),
              total_bands_lane2 |-> Len(bands2),
              matched_bands |-> Len(m.matches)]

\* A call of analyzer.compare_lanes: nothing of the analyzer is written.
CompareLanes(lane1_id, lane2_id, tolerance_pixels) ==
    /\ result' = [op |-> "compare_lanes",
                  args |-> [lane1_id |-> lane1_id, lane2_id |-> lane2_id,
                            tolerance_pixels |-> tolerance_pixels],
                  ret |-> compare_lanes(bands, lane1_id, lane2_id, tolerance_pixels)]
    /\ UNCHANGED <<image, processed_image, lanes, bands, scan, pc>>

----------------------------------------------------------------------------
(* load_image *)

\* cv2.imread: the decoded image, or None when the source cannot be decoded.
imread(src) ==
    IF src.decodable
    THEN [kind |-> "image", height |-> src.height, width |-> src.width,
          content |-> src.content, gaps |-> src.gaps]
    ELSE NoneVal

\* self.image.shape[0] < 100 or self.image.shape[1] < 100
TooSmallMut(img) == img.height < MinImageSize

TooSmall(img) == img.height < MinImageSize \/ img.width < MinImageSize

\* self.image is assigned before it is validated; processed_image is
\* assigned only after both checks pass.
load_image(src, old_processed) ==
    LET img == imread(src)
    IN  IF img = NoneVal
        THEN [image |-> img, processed_image |-> old_processed,
              ret |-> Raised("ValueError")]
        ELSE IF TooSmall(img)
        THEN [image |-> img, processed_image |-> old_processed,
              ret |-> Raised("ValueError")]
        ELSE [image |-> img, processed_image |-> img, ret |-> [kind |-> "True"]]

----------------------------------------------------------------------------
(* detect_lanes *)

\* find_peaks(inverted_profile, height=mean, distance=width//20) on the
\* column profile: what the grid's content makes it return.
ColumnPeaks(grid) == grid.gaps

\* num_lanes = len(peaks) + 1 if len(peaks) > 0 else 6, when not given
EstimateNumLanes(num_lanes, peaks) ==
    IF num_lanes = NoneVal
    THEN (IF Len(peaks) > 0 THEN Len(peaks) + 1 ELSE DefaultNumLanes)
    ELSE num_lanes.value

\* [int(i * width / num_lanes) for i in range(num_lanes + 1)]; the
\* quotient is never negative, so int() is the floor.
EqualDivisionMut(width, num_lanes) ==
    [k \in 1..(num_lanes + 1) |-> (k - 1) * (width \div num_lanes)]

EqualDivision(width, num_lanes) ==
    [k \in 1..(num_lanes + 1) |-> ((k - 1) * width) \div num_lanes]

\* lane_boundaries, given len(peaks) > 0 or num_lanes # 0
LaneBoundariesMut(width, num_lanes, peaks) ==
    IF Len(peaks) > 0
    THEN <<0>> \o peaks
    ELSE EqualDivision(width, num_lanes)

LaneBoundaries(width, num_lanes, peaks) ==
    IF Len(peaks) > 0
    THEN <<0>> \o peaks \o <<width>>
    ELSE EqualDivision(width, num_lanes)

\* for i in range(len(lane_boundaries) - 1): self.lanes.append({...})
LaneRectangles(lane_boundaries, height) ==
    [k \in 1..(Len(lane_boundaries) - 1) |->
        Lane(k - 1, lane_boundaries[k], lane_boundaries[k + 1], height)]

\* manual_lanes is NoneVal or [value |-> list]; a list is truthy when it
\* is not empty.  num_lanes is NoneVal or [value |-> integer].
Truthy(manual_lanes) == manual_lanes # NoneVal /\ Len(manual_lanes.value) > 0

detect_lanes(grid, old_lanes, num_lanes, manual_lanes) ==
    IF Truthy(manual_lanes)
    THEN [lanes |-> manual_lanes.value, ret |-> [kind |-> "lanes", value |-> manual_lanes.value]]
    ELSE IF grid = NoneVal
    THEN [lanes |-> old_lanes, ret |-> Raised("AttributeError")]
    ELSE LET peaks == ColumnPeaks(grid)
             n == EstimateNumLanes(num_lanes, peaks)
         IN  IF Len(peaks) = 0 /\ n = 0
             THEN [lanes |-> old_lanes, ret |-> Raised("ZeroDivisionError")]
             ELSE LET new == LaneRectangles(LaneBoundaries(grid.width, n, peaks),
                                            grid.height)
                  IN  [lanes |-> new, ret |-> [kind |-> "lanes", value |-> new]]

----------------------------------------------------------------------------
(* detect_bands_in_lane and detect_all_bands *)

\* Python's list index: a negative index counts from the end.
IndexInRange(s, i) == -Len(s) <= i /\ i < Len(s)

ListAt(s, i) == IF i >= 0 THEN s[i + 1] ELSE s[Len(s) + i + 1]

\* processed_image[y1:y2, x1:x2] for non-negative bounds: the slice is
\* clamped to the grid.  The key names the pixels the profile is made of.
RegionKey(grid, lane) ==
    [content |-> grid.content,
     x1 |-> Min2(lane.x1, grid.width), x2 |-> Min2(lane.x2, grid.width),
     y1 |-> Min2(lane.y1, grid.height), y2 |-> Min2(lane.y2, grid.height)]

RegionRows(key) == Max2(0, key.y2 - key.y1)

RegionCols(key) == Max2(0, key.x2 - key.x1)

\* lane_region.size == 0
RegionEmpty(key) == RegionRows(key) = 0 \/ RegionCols(key) = 0

\* inverted_profile[i] for a 0-based row index
At(profile, i) == profile[i + 1]

\* The k-th smallest sample (0-based k).
KthSmallest(profile, k) ==
    CHOOSE v \in SeqRange(profile) :
        /\ Cardinality({i \in DOMAIN profile : profile[i] <= v}) >= k + 1
        /\ Cardinality({i \in DOMAIN profile : profile[i] < v}) <= k

\* np.percentile(inverted_profile, 75), times 4: linear interpolation
\* between the samples around the virtual index 0.75 * (n - 1).
Percentile75x4(profile) ==
    LET n == Len(profile)
        lo == (3 * (n - 1)) \div 4
        frac4 == (3 * (n - 1)) % 4
        a == KthSmallest(profile, lo)
        b == IF lo + 1 < n THEN KthSmallest(profile, lo + 1) ELSE a
    IN  4 * a + frac4 * (b - a)

\* find_peaks' local maxima (0-based rows), in its one pass over the
\* samples: a peak is the middle of a plateau that is higher than the
\* samples on both of its sides; the first and last samples are no peaks.
RECURSIVE PlateauEnd(_, _, _)
PlateauEnd(profile, i, i_ahead) ==
    IF i_ahead < Len(profile) - 1 /\ At(profile, i_ahead) = At(profile, i)
    THEN PlateauEnd(profile, i, i_ahead + 1)
    ELSE i_ahead

RECURSIVE LocalMaximaFrom(_, _)
LocalMaximaFrom(profile, i) ==
    IF i >= Len(profile) - 1 THEN {}
    ELSE IF At(profile, i - 1) < At(profile, i)
    THEN LET i_ahead == PlateauEnd(profile, i, i + 1)
         IN  IF At(profile, i_ahead) < At(profile, i)
             THEN {(i + i_ahead - 1) \div 2} \cup LocalMaximaFrom(profile, i_ahead + 1)
             ELSE LocalMaximaFrom(profile, i + 1)
    ELSE LocalMaximaFrom(profile, i + 1)

LocalMaxima(profile) == LocalMaximaFrom(profile, 1)

\* The local maxima that pass height=threshold.
PeakCandidates(profile) ==
    LET threshold4 == Percentile75x4(profile)
    IN  {i \in LocalMaxima(profile) : 4 * At(profile, i) >= threshold4}

RECURSIVE SortedSeq(_)
SortedSeq(S) ==
    IF S = {} THEN << >>
    ELSE LET m == CHOOSE x \in S : \A y \in S : x <= y
         IN  <<m>> \o SortedSeq(S \ {m})

\* What find_peaks(height=threshold, distance=10, width=3) may return:
\* candidates at least `distance` apart, in ascending order.  Which of them
\* pass the distance and width filters is left to the library.
PeakChoices(profile) ==
    {SortedSeq(P) : P \in {Q \in SUBSET PeakCandidates(profile) :
                             \A a, b \in Q : a # b => Abs(a - b) >= MinBandDistance}}

\* while left_bound > 0 and inverted_profile[left_bound] > threshold * 0.5
RECURSIVE WalkLeft(_, _, _)
WalkLeft(profile, threshold4, left_bound) ==
    IF left_bound > 0 /\ 8 * At(profile, left_bound) > threshold4
    THEN WalkLeft(profile, threshold4, left_bound - 1)
    ELSE left_bound

\* while right_bound < len(inverted_profile) - 1 and
\*       inverted_profile[right_bound] > threshold * 0.5
RECURSIVE WalkRight(_, _, _)
WalkRight(profile, threshold4, right_bound) ==
    IF right_bound < Len(profile) - 1 /\ 8 * At(profile, right_bound) > threshold4
    THEN WalkRight(profile, threshold4, right_bound + 1)
    ELSE right_bound

LeftBoundMut(profile, threshold4, peak) == WalkLeft(profile, threshold4, peak) - 1

LeftBound(profile, threshold4, peak) == WalkLeft(profile, threshold4, peak)

RightBoundMut(profile, threshold4, peak) == WalkRight(profile, threshold4, peak) + 1

RightBoundFullMut(profile, threshold4, peak) == WalkRight(profile, 2 * threshold4, peak)

RightBound(profile, threshold4, peak) == WalkRight(profile, threshold4, peak)

\* for i, peak in enumerate(peaks): bands.append({...})
ExtractBandsMut(profile, peaks, y1, lane_id) ==
    LET threshold4 == Percentile75x4(profile)
        seen == Len(bands)
    IN  [k \in 1..Len(peaks) |->
            Band(seen + k - 1, peaks[k], At(profile, peaks[k]),
                 LeftBound(profile, threshold4, peaks[k]),
                 RightBound(profile, threshold4, peaks[k]),
                 y1, lane_id)]

ExtractBands(profile, peaks, y1, lane_id) ==
    LET threshold4 == Percentile75x4(profile)
    IN  [k \in 1..Len(peaks) |->
            Band(k - 1, peaks[k], At(profile, peaks[k]),
                 LeftBound(profile, threshold4, peaks[k]),
                 RightBound(profile, threshold4, peaks[k]),
                 y1, lane_id)]

\* lane = self.lanes[lane_id]: the lane is looked up by list index.
LaneOfMut(lane_list, lane_id) == ListAt(lane_list, 0)

LaneOf(lane_list, lane_id) == ListAt(lane_list, lane_id)

\* env maps a region key to [profile, peaks], the numeric front end's
\* answer for that region.
detect_bands_in_lane(grid, lane_list, lane_id, env) ==
    IF lane_id >= Len(lane_list)
    THEN [kind |-> "bands", value |-> << >>]
    ELSE IF ~IndexInRange(lane_list, lane_id)
    THEN Raised("IndexError")
    ELSE IF grid = NoneVal
    THEN Raised("TypeError")
    ELSE LET lane == LaneOf(lane_list, lane_id)
             key == RegionKey(grid, lane)
         IN  IF RegionEmpty(key)
             THEN [kind |-> "bands", value |-> << >>]
             ELSE [kind |-> "bands",
                   value |-> ExtractBands(env[key].profile, env[key].peaks,
                                          lane.y1, lane_id)]

\* The region keys detect_bands_in_lane(lane_id) reads.
KeysRead(grid, lane_list, lane_id) ==
    IF /\ IndexInRange(lane_list, lane_id)
       /\ grid # NoneVal
       /\ ~RegionEmpty(RegionKey(grid, LaneOf(lane_list, lane_id)))
    THEN {RegionKey(grid, LaneOf(lane_list, lane_id))}
    ELSE {}

\* self.bands = {}; for lane in self.lanes: self.bands[lane['id']] = ...
\* An exception leaves self.bands as the loop has filled it so far.
RECURSIVE AllBandsLoop(_, _, _, _, _)
AllBandsLoop(grid, lane_list, env, k, acc) ==
    IF k > Len(lane_list)
    THEN [bands |-> acc, ret |-> [kind |-> "bandmap", value |-> acc]]
    ELSE LET lane_bands == detect_bands_in_lane(grid, lane_list, lane_list[k].id, env)
         IN  IF lane_bands.kind = "raised"
             THEN [bands |-> acc, ret |-> lane_bands]
             ELSE AllBandsLoop(grid, lane_list, env, k + 1,
                               DictSet(acc, lane_list[k].id, lane_bands.value))

\* self.bands = {}: the map the call starts from, whatever it held.
ResetBandsMut(old_bands) == old_bands

ResetBands(old_bands) == << >>

detect_all_bands(grid, lane_list, env, old_bands) ==
    AllBandsLoop(grid, lane_list, env, 1, ResetBands(old_bands))

AllKeysRead(grid, lane_list) ==
    UNION {KeysRead(grid, lane_list, lane_list[k].id) : k \in DOMAIN lane_list}

----------------------------------------------------------------------------
(* The environment: the numeric front end *)

\* The numeric front end (the column mean of the region, gaussian_filter1d,
\* max - value and find_peaks) answers, for a region, with its inverted
\* profile and the peaks found in it.  A profile it may give: of the
\* region's length, non-negative with a zero sample (max - value), and flat
\* where the image has no band.  The peaks are among PeakChoices.
ValidProfile(key, profile) ==
    /\ Len(profile) = RegionRows(key)
    /\ \A i \in DOMAIN profile : profile[i] >= 0
    /\ \E i \in DOMAIN profile : profile[i] = 0
    /\ key.content = {} => \A i \in DOMAIN profile : profile[i] = 0

\* The profile with a bump (4 at the centre row, 2 beside it) at each
\* 0-based centre row.
BumpProfile(n, centres) ==
    [i \in 1..n |-> IF (i - 1) \in centres THEN 4
                    ELSE IF i \in centres \/ (i - 2) \in centres THEN 2
                    ELSE 0]

\* An image's content is the set of its DNA bands, each darkening the
\* columns [x1, x2) around image row `row`.
Blob(x1, x2, row) == [x1 |-> x1, x2 |-> x2, row |-> row]

\* A band shows in a region's row profile when it covers more than half
\* of the region's columns.
Visible(blob, key) ==
    2 * Max2(0, Min2(blob.x2, key.x2) - Max2(blob.x1, key.x1)) > RegionCols(key)

\* The local rows where the region's profile peaks: never its first or
\* last row.
FrontEndCentres(key) ==
    {b.row - key.y1 : b \in {c \in key.content : Visible(c, key)}}
        \cap (1..(RegionRows(key) - 2))

\* The deterministic front end of Spec and SpecProcess: a bump, and a
\* peak, at every band that shows in the region.
FrontEnd(key) ==
    [profile |-> BumpProfile(RegionRows(key), FrontEndCentres(key)),
     peaks |-> SortedSeq(FrontEndCentres(key))]

FrontEndOf(grid, lane_list) == [k \in AllKeysRead(grid, lane_list) |-> FrontEnd(k)]

----------------------------------------------------------------------------
(* Shared initial values *)

NoCall == [op |-> "none", args |-> NoneVal, ret |-> NoneVal]

NoScan == << >>

----------------------------------------------------------------------------
(* SpecCompare: compare_lanes over the band maps detection can leave *)

MaxBands == 3

MaxRow == 30

RowStep == 5

SmallRows == {r \in 2..MaxRow : r % RowStep = 0}

ScenarioRows == {100, 105, 300, 500, 600}

Tolerances == {-1, 0, 4, 5, DefaultTolerance, 15}

CompareIds == {0, 1, 2}

\* Peak rows find_peaks(distance=10) can return: ascending, 10 apart.
BandRowSeqs(rows) ==
    {s \in UNION {[1..n -> rows] : n \in 0..MaxBands} :
        \A i \in 1..(Len(s) - 1) : s[i + 1] - s[i] >= MinBandDistance}

MaxOf(S) == CHOOSE x \in S : \A y \in S : y <= x

\* A gel with two lanes side by side, its bands at the given rows.
CompareSource(rows, rows1, rows2) ==
    [decodable |-> TRUE, height |-> Max2(MinImageSize, MaxOf(rows) + 3),
     width |-> MinImageSize,
     content |-> {Blob(0, MinImageSize \div 2, rows1[k]) : k \in DOMAIN rows1}
                 \cup {Blob(MinImageSize \div 2, MinImageSize, rows2[k]) : k \in DOMAIN rows2},
     gaps |-> << >>]

\* The analyzer after load_image, detect_lanes(num_lanes=2) and
\* detect_all_bands on such a gel.
InitCompare ==
    \E rows \in {SmallRows, ScenarioRows} :
        \E rows1 \in BandRowSeqs(rows), rows2 \in BandRowSeqs(rows) :
            /\ image = imread(CompareSource(rows, rows1, rows2))
            /\ processed_image = image
            /\ lanes = detect_lanes(image, << >>, [value |-> 2], NoneVal).lanes
            /\ scan = NoScan
            /\ bands = detect_all_bands(image, lanes, FrontEndOf(image, lanes),
                                     << >>).bands
            /\ result = NoCall
            /\ pc = "idle"

\* One call on each analyzer: the call writes nothing of the analyzer.
NextCompare ==
    /\ result = NoCall
    /\ \E lane1_id \in CompareIds, lane2_id \in CompareIds,
          tolerance_pixels \in Tolerances :
          CompareLanes(lane1_id, lane2_id, tolerance_pixels)

SpecCompare == InitCompare /\ [][NextCompare]_vars

----------------------------------------------------------------------------
(* Properties of compare_lanes *)

IsComparison == result.op = "compare_lanes" /\ result.ret.kind = "comparison"

Bands1 == DictGet(bands, result.args.lane1_id)

Bands2 == DictGet(bands, result.args.lane2_id)

Occurrences(s, x) == Cardinality({i \in DOMAIN s : s[i] = x})

Rows(band_list) == [k \in DOMAIN band_list |-> band_list[k].position]

\* C1: the result partitions both lanes: every lane1 band is band1 of
\* exactly one match or occurs exactly once in unique_lane1 (never both),
\* every lane2 band likewise with band2 and unique_lane2, nothing else is
\* in these lists, and the three counters agree with the list lengths.
C1_Partition ==
    IsComparison =>
        LET r == result.ret
            m1 == [i \in DOMAIN r.matches |-> r.matches[i].band1]
            m2 == [i \in DOMAIN r.matches |-> r.matches[i].band2]
        IN  /\ \A k \in DOMAIN Bands1 :
                  Occurrences(m1, Bands1[k]) + Occurrences(r.unique_lane1, Bands1[k]) = 1
            /\ \A k \in DOMAIN Bands2 :
                  Occurrences(m2, Bands2[k]) + Occurrences(r.unique_lane2, Bands2[k]) = 1
            /\ SeqRange(m1) \cup SeqRange(r.unique_lane1) \subseteq SeqRange(Bands1)
            /\ SeqRange(m2) \cup SeqRange(r.unique_lane2) \subseteq SeqRange(Bands2)
            /\ Len(r.matches) + Len(r.unique_lane1) = r.total_bands_lane1
            /\ Len(r.matches) + Len(r.unique_lane2) = r.total_bands_lane2
            /\ r.total_bands_lane1 = Len(Bands1)
            /\ r.total_bands_lane2 = Len(Bands2)
            /\ r.matched_bands = Len(r.matches)

\* A comparison of two different lanes with a match and an unmatched band
\* on each side.
C1_Witness ==
    /\ IsComparison
    /\ result.args.lane1_id # result.args.lane2_id
    /\ Len(result.ret.matches) > 0
    /\ Len(result.ret.unique_lane1) > 0
    /\ Len(result.ret.unique_lane2) > 0


SameCount(r1, r2) == r1.matched_bands = r2.matched_bands

\* Two bands of one lane are more than twice the tolerance apart, so no
\* band of the other lane is within tolerance of both.
WellSeparated(band_list, tolerance_pixels) ==
    \A i, j \in DOMAIN band_list :
        i < j => Abs(band_list[i].position - band_list[j].position) > 2 * tolerance_pixels

Swapped ==
    compare_lanes(bands, result.args.lane2_id, result.args.lane1_id,
                  result.args.tolerance_pixels)

\* C2 as stated: compare_lanes(A, B) and compare_lanes(B, A) return the
\* same similarity_score and the same number of matches, for all band
\* sequences and every tolerance.
C2_Original ==
    IsComparison =>
        /\ Swapped.similarity_score = result.ret.similarity_score
        /\ SameCount(Swapped, result.ret)

\* C2 as amended: when within each lane any two bands are more than twice
\* the tolerance apart, compare_lanes(A, B) and compare_lanes(B, A) return
\* the same similarity_score and the same number of matches.
C2_SymmetricWhenSeparated ==
    (/\ IsComparison
     /\ WellSeparated(Bands1, result.args.tolerance_pixels)
     /\ WellSeparated(Bands2, result.args.tolerance_pixels)) =>
        /\ Swapped.similarity_score = result.ret.similarity_score
        /\ SameCount(Swapped, result.ret)

\* Two different well separated lanes, compared with a positive tolerance,
\* with a match and unmatched bands on both sides.
C2_Witness ==
    /\ IsComparison
    /\ result.args.lane1_id # result.args.lane2_id
    /\ result.args.tolerance_pixels > 0
    /\ WellSeparated(Bands1, result.args.tolerance_pixels)
    /\ WellSeparated(Bands2, result.args.tolerance_pixels)
    /\ Len(Bands1) > 1
    /\ Len(Bands2) > 1
    /\ Len(result.ret.matches) > 0
    /\ Len(result.ret.unique_lane1) > 0
    /\ Len(result.ret.unique_lane2) > 0

\* C3: no lane2 band and no lane1 band occurs in more than one match, and
\* every match has distance = |band1.position - band2.position| <=
\* tolerance_pixels; a negative tolerance yields no match.
C3_MatchesSound ==
    IsComparison =>
        LET ms == result.ret.matches
        IN  /\ \A i, j \in DOMAIN ms :
                  i # j => ms[i].band1 # ms[j].band1 /\ ms[i].band2 # ms[j].band2
            /\ \A i \in DOMAIN ms :
                  /\ ms[i].distance = Abs(ms[i].band1.position - ms[i].band2.position)
                  /\ ms[i].distance <= result.args.tolerance_pixels
                  /\ ms[i].distance >= 0
            /\ result.args.tolerance_pixels < 0 => ms = << >>

\* Two lane1 bands within tolerance of the same lane2 band: the second one
\* stays unmatched although the lane2 band is in its reach.
C3_Witness ==
    /\ IsComparison
    /\ Len(result.ret.matches) > 0
    /\ \E k \in DOMAIN result.ret.unique_lane1 :
          \E i \in DOMAIN result.ret.matches :
              Abs(result.ret.unique_lane1[k].position
                  - result.ret.matches[i].band2.position)
                  <= result.args.tolerance_pixels

\* C8: similarity_score is 2 * |matches| / (|bands1| + |bands2|) * 100
\* rounded to the nearest hundredth when the lanes hold a band, 0 when
\* both are empty (a result, not an error), and lies in [0, 100].
C8_ScoreFormula ==
    IsComparison =>
        LET r == result.ret
            total == Len(Bands1) + Len(Bands2)
            exact == 2 * Len(r.matches) * 100 * ScoreDecimals
        IN  /\ total > 0 => 2 * Abs(r.similarity_score * total - exact) <= total
            /\ total = 0 => r.similarity_score = 0
            /\ 0 <= r.similarity_score
            /\ r.similarity_score <= 100 * ScoreDecimals

\* One match among three bands: 66.67 after rounding.
C8_Witness ==
    /\ IsComparison
    /\ Len(Bands1) + Len(Bands2) = 3
    /\ Len(result.ret.matches) = 1
    /\ result.ret.similarity_score = 6667

\* Both lanes empty: the defined-zero path.
C8_WitnessEmpty ==
    /\ IsComparison
    /\ Len(Bands1) + Len(Bands2) = 0
    /\ result.ret.similarity_score = 0

IsScenario ==
    /\ IsComparison
    /\ Rows(Bands1) = <<100, 300, 500>>
    /\ Rows(Bands2) = <<105, 600>>
    /\ result.args.tolerance_pixels = 10

\* C9: lane1 rows [100, 300, 500] against lane2 rows [105, 600] with
\* tolerance 10 give exactly one match (100 with 105, distance 5),
\* unique_lane1 = the bands at 300 and 500 in that order, unique_lane2 =
\* the band at 600, and similarity_score 40.0.
C9_Scenario ==
    IsScenario =>
        LET r == result.ret
        IN  /\ Len(r.matches) = 1
            /\ r.matches[1].band1 = Bands1[1]
            /\ r.matches[1].band2 = Bands2[1]
            /\ r.matches[1].distance = 5
            /\ r.unique_lane1 = <<Bands1[2], Bands1[3]>>
            /\ r.unique_lane2 = <<Bands2[2]>>
            /\ r.similarity_score = 40 * ScoreDecimals

C9_Witness == IsScenario /\ result.ret.matched_bands = 1

SameRows ==
    /\ IsComparison
    /\ Rows(Bands1) = Rows(Bands2)
    /\ Len(Bands1) > 0
    /\ result.args.tolerance_pixels >= 0

\* C10: two lanes with identical, non-empty band rows (or a lane with
\* itself), compared with a tolerance >= 0, give similarity_score 100.0,
\* matched_bands = total_bands_lane1 = total_bands_lane2, every match at
\* distance 0 and both unique lists empty.
C10_IdenticalLanes ==
    SameRows =>
        LET r == result.ret
        IN  /\ r.similarity_score = 100 * ScoreDecimals
            /\ r.matched_bands = r.total_bands_lane1
            /\ r.matched_bands = r.total_bands_lane2
            /\ r.matched_bands = Len(Bands1)
            /\ \A i \in DOMAIN r.matches :
                  /\ r.matches[i].distance = 0
                  /\ r.matches[i].band1 = Bands1[i]
                  /\ r.matches[i].band2 = Bands2[i]
            /\ r.unique_lane1 = << >>
            /\ r.unique_lane2 = << >>

\* Two different lanes with the same three rows, compared with a tolerance
\* that reaches the neighbouring band too.
C10_Witness ==
    /\ SameRows
    /\ result.args.lane1_id # result.args.lane2_id
    /\ Len(Bands1) = 3
    /\ result.args.tolerance_pixels >= MinBandDistance
    /\ Bands1[2].position - Bands1[1].position <= result.args.tolerance_pixels

\* A lane compared with itself.
C10_WitnessSelf ==
    /\ SameRows
    /\ result.args.lane1_id = result.args.lane2_id
    /\ Len(Bands1) > 1

----------------------------------------------------------------------------
(* Spec: one analyzer, its methods called in any order *)

Init ==
    /\ image = NoneVal
    /\ processed_image = NoneVal
    /\ lanes = << >>
    /\ bands = << >>
    /\ scan = NoScan
    /\ result = NoCall
    /\ pc = "idle"

\* The image sources of Spec: one that does not decode, one that is too
\* small, a blank grid, and a gel with one gap column (two lanes) whose
\* lanes hold different bands.
Undecodable ==
    [decodable |-> FALSE, height |-> 0, width |-> 0, content |-> {}, gaps |-> << >>]

TooSmallSource ==
    [decodable |-> TRUE, height |-> MinImageSize - 1, width |-> MinImageSize,
     content |-> {}, gaps |-> << >>]

BlankSource ==
    [decodable |-> TRUE, height |-> MinImageSize, width |-> MinImageSize,
     content |-> {}, gaps |-> << >>]

GelSource ==
    [decodable |-> TRUE, height |-> MinImageSize, width |-> MinImageSize,
     content |-> {Blob(5, 45, 20), Blob(5, 45, 45), Blob(55, 95, 25), Blob(55, 95, 70)},
     gaps |-> <<MinImageSize \div 2>>]

Sources == {Undecodable, TooSmallSource, BlankSource, GelSource}

NumLanesArgs == {NoneVal, [value |-> -1], [value |-> 0], [value |-> 2]}

\* A caller's lane list whose ids are not the list positions.
ManualLaneList ==
    <<[id |-> 1, x1 |-> 0, x2 |-> 50, y1 |-> 0, y2 |-> 60, width |-> 50],
      [id |-> 0, x1 |-> 50, x2 |-> 100, y1 |-> 10, y2 |-> 100, width |-> 50]>>

\* detect_lanes is called with a lane count, or with a manual lane list.
DetectLanesArgs ==
    {[num_lanes |-> n, manual_lanes |-> NoneVal] : n \in NumLanesArgs}
        \cup {[num_lanes |-> NoneVal, manual_lanes |-> [value |-> m]] :
                 m \in {<< >>, ManualLaneList}}

LoadImage(src) ==
    LET o == load_image(src, processed_image)
    IN  /\ image' = o.image
        /\ processed_image' = o.processed_image
        /\ result' = [op |-> "load_image", args |-> src, ret |-> o.ret]
        /\ UNCHANGED <<lanes, bands, scan, pc>>

DetectLanes(num_lanes, manual_lanes) ==
    LET o == detect_lanes(processed_image, lanes, num_lanes, manual_lanes)
    IN  /\ lanes' = o.lanes
        /\ result' = [op |-> "detect_lanes",
                      args |-> [num_lanes |-> num_lanes, manual_lanes |-> manual_lanes],
                      ret |-> o.ret]
        /\ UNCHANGED <<image, processed_image, bands, scan, pc>>

\* env: what the front end answers for the regions the call reads.
DetectAllBands(env) ==
    LET o == detect_all_bands(processed_image, lanes, env, bands)
    IN  /\ bands' = o.bands
        /\ scan' = env
        /\ result' = [op |-> "detect_all_bands", args |-> NoneVal, ret |-> o.ret]
        /\ UNCHANGED <<image, processed_image, lanes, pc>>

DetectBandsInLane(lane_id, env) ==
    /\ scan' = env
    /\ result' = [op |-> "detect_bands_in_lane", args |-> [lane_id |-> lane_id],
                  ret |-> detect_bands_in_lane(processed_image, lanes, lane_id, env)]
    /\ UNCHANGED <<image, processed_image, lanes, bands, pc>>

Next ==
    \/ \E src \in Sources : LoadImage(src)
    \/ \E a \in DetectLanesArgs : DetectLanes(a.num_lanes, a.manual_lanes)
    \/ DetectAllBands(FrontEndOf(processed_image, lanes))
    \/ \E lane1_id \in CompareIds, lane2_id \in CompareIds :
          CompareLanes(lane1_id, lane2_id, DefaultTolerance)

Spec == Init /\ [][Next]_vars

----------------------------------------------------------------------------
(* Properties of the analyzer's life cycle *)

KeyAbsent(d, args) == ~DictHas(d, args.lane1_id) \/ ~DictHas(d, args.lane2_id)

\* C4: a compare_lanes call writes none of image, processed_image, lanes
\* and bands, and returns None (it does not raise) whenever lane1_id or
\* lane2_id is not a key of the band map; so every call made before any
\* band detection returns None.
C4_NotComparable ==
    [][(result'.op = "compare_lanes" /\ result' # result) =>
          /\ UNCHANGED <<image, processed_image, lanes, bands>>
          /\ KeyAbsent(bands, result'.args) => result'.ret = NoneVal
          /\ bands = << >> => result'.ret = NoneVal]_vars

\* Bands are detected, lane1_id is a key and lane2_id is not: None.
C4_Witness ==
    /\ result.op = "compare_lanes"
    /\ DictHas(bands, result.args.lane1_id)
    /\ ~DictHas(bands, result.args.lane2_id)
    /\ result.ret = NoneVal

\* Lanes are detected but detect_all_bands has not run: None.
C4_WitnessNoBands ==
    /\ result.op = "compare_lanes"
    /\ lanes # << >>
    /\ bands = << >>
    /\ result.ret = NoneVal

----------------------------------------------------------------------------
(* measure_bands and _estimate_molecular_weight *)

standard_sizes ==
    <<10000, 8000, 6000, 5000, 4000, 3000, 2500, 2000, 1500, 1000, 750, 500,
      250>>

MinSizeBp == 100

MinOf(S) == CHOOSE m \in S : \A x \in S : m <= x

\* int() of the quotient num / den, den > 0: truncation toward zero.
TruncDiv(num, den) == IF num >= 0 THEN num \div den ELSE -((-num) \div den)

RECURSIVE Gcd(_, _)
Gcd(a, b) == IF b = 0 THEN a ELSE Gcd(b, a % b)

RECURSIVE IsPowerOfTwo(_)
IsPowerOfTwo(n) == n = 1 \/ (n > 1 /\ n % 2 = 0 /\ IsPowerOfTwo(n \div 2))

\* offset / pos_range is a binary fraction: the float quotient, and the
\* product and difference made from it, are exact.
ExactQuotient(offset, pos_range) ==
    IsPowerOfTwo(pos_range \div Gcd(pos_range, Abs(offset)))

\* The estimate before int() is a whole number that the floats reach
\* through a rounded quotient: they land on it or just below it, and int()
\* then gives the whole number or one less.
RoundingMatters(max_size, size_range, offset, pos_range) ==
    /\ pos_range > 0
    /\ (max_size * pos_range - offset * size_range) % pos_range = 0
    /\ ~ExactQuotient(offset, pos_range)

LadderBands(d, ladder_lane_id) ==
    IF DictHas(d, ladder_lane_id) THEN DictGet(d, ladder_lane_id) ELSE << >>

LadderPositions(ladder_bands) ==
    {ladder_bands[i].position : i \in 1..Len(ladder_bands)}

\* standard_sizes[:len(ladder_positions)]: a slice past the end of the
\* table is the whole table.
TableSubsetMut(ladder_bands) ==
    {standard_sizes[i] : i \in 1..Len(standard_sizes)}

TableSubsetShortMut(ladder_bands) ==
    {standard_sizes[i] :
        i \in 1..Min2(Len(ladder_bands), Len(standard_sizes) - 1)}

TableSubset(ladder_bands) ==
    {standard_sizes[i] :
        i \in 1..Min2(Len(ladder_bands), Len(standard_sizes))}

\* max(100, int(estimated_size))
FloorSizeMut(estimated_size) == estimated_size

FloorSize(estimated_size) == Max2(MinSizeBp, estimated_size)

\* if len(ladder_positions) >= 2
EnoughLadderMut(ladder_bands) == Len(ladder_bands) >= 1

EnoughLadder(ladder_bands) == Len(ladder_bands) >= 2

\* relative_pos * size_range, subtracted from the largest size, then int():
\* exact quotients stand for the floats.  fp_low is the environment's part:
\* the positions at which the floats land below a whole estimate.
InterpolateMut(sizes, ladder_positions, position, fp_low) ==
    (MaxOf(sizes) + MinOf(sizes)) \div 2

Interpolate(sizes, ladder_positions, position, fp_low) ==
    LET pos_range == MaxOf(ladder_positions) - MinOf(ladder_positions)
        size_range == MaxOf(sizes) - MinOf(sizes)
        offset == position - MinOf(ladder_positions)
    IN  IF pos_range > 0
        THEN TruncDiv(MaxOf(sizes) * pos_range - offset * size_range,
                      pos_range)
             - (IF /\ position \in fp_low
                   /\ RoundingMatters(MaxOf(sizes), size_range, offset,
                                      pos_range)
                THEN 1 ELSE 0)
        ELSE MaxOf(sizes)

estimate_molecular_weight(d, position, ladder_lane_id, fp_low) ==
    LET ladder_bands == LadderBands(d, ladder_lane_id)
    IN  IF Len(ladder_bands) = 0 THEN NoneVal
        ELSE IF EnoughLadder(ladder_bands)
        THEN [value |-> FloorSize(Interpolate(TableSubset(ladder_bands),
                                              LadderPositions(ladder_bands),
                                              position, fp_low))]
        ELSE NoneVal

Measurement(band, estimated_size_bp) ==
    [band_id |-> band.id, position_pixels |-> band.position,
     intensity |-> band.intensity, width_pixels |-> band.width,
     estimated_size_bp |-> estimated_size_bp]

\* if ladder_lane_id is not None and ladder_lane_id in self.bands
LadderGivenMut(d, ladder_lane_id) == ladder_lane_id # NoneVal

LadderGiven(d, ladder_lane_id) ==
    ladder_lane_id # NoneVal /\ DictHas(d, ladder_lane_id.value)

\* ladder_lane_id is NoneVal or [value |-> id].
measure_bands(d, ladder_lane_id, fp_low) ==
    [k \in 1..Len(d) |->
        [key |-> d[k].key,
         value |->
            [i \in 1..Len(d[k].value) |->
                Measurement(d[k].value[i],
                    IF LadderGiven(d, ladder_lane_id)
                    THEN estimate_molecular_weight(d,
                             d[k].value[i].position, ladder_lane_id.value,
                             fp_low)
                    ELSE NoneVal)]]]

\* A call of analyzer.measure_bands: nothing of the analyzer is written.
MeasureBands(ladder_lane_id, fp_low) ==
    /\ result' = [op |-> "measure_bands",
                  args |-> [ladder_lane_id |-> ladder_lane_id,
                            fp_low |-> fp_low],
                  ret |-> [kind |-> "measurements",
                           value |-> measure_bands(bands, ladder_lane_id,
                                                   fp_low)]]
    /\ UNCHANGED <<image, processed_image, lanes, bands, scan, pc>>

----------------------------------------------------------------------------
(* visualize_analysis and generate_report.  Drawing and file output are
   the environment; what is kept is the data each of them reads. *)

\* self.lanes[lane_id] for every band drawn, self.bands[...] for the two
\* compared lanes.
visualize_analysis(lane_list, d, comparison_result) ==
    IF \E k \in 1..Len(d) :
          Len(d[k].value) > 0 /\ ~IndexInRange(lane_list, d[k].key)
    THEN Raised("IndexError")
    ELSE IF comparison_result # NoneVal
            /\ (~DictHas(d, comparison_result.lane1_id)
                \/ ~DictHas(d, comparison_result.lane2_id))
    THEN Raised("KeyError")
    ELSE NoneVal

generate_report(img, lane_list, d, comparison_result) ==
    [kind |-> "report",
     image_info |->
        [dimensions |-> IF img # NoneVal THEN <<img.height, img.width>>
                        ELSE NoneVal,
         total_lanes |-> Len(lane_list)],
     lanes |-> lane_list,
     bands |-> d,
     measurements |-> measure_bands(d, NoneVal, {}),
     comparison |-> comparison_result]

----------------------------------------------------------------------------
(* process_gel_image: one call, on an analyzer of its own.  pc is the
   statement the call stands at; result is its frame: the arguments, the
   local comparison_result, the calls made so far, and what it returned
   or raised. *)

Frame(args) ==
    [op |-> "process_gel_image", args |-> args, comparison_result |-> NoneVal,
     calls |-> << >>, ret |-> NoneVal]

\* compare_lanes as callers pass it: None or [value |-> list of ids].
CompareLanesArgs ==
    {NoneVal} \cup
    {[value |-> c] : c \in {<< >>, <<0>>, <<0, 1>>, <<1, 0>>, <<0, 0>>,
                            <<0, 2>>, <<5, 1>>, <<-1, 0>>, <<0, 1, 2>>}}

\* An image of valid height that is one column too narrow.
NarrowSource ==
    [decodable |-> TRUE, height |-> MinImageSize, width |-> MinImageSize - 1,
     content |-> {}, gaps |-> << >>]

ProcessArgs ==
    {[image_path |-> src, num_lanes |-> n, compare_lanes |-> c] :
        src \in Sources \cup {NarrowSource}, n \in NumLanesArgs,
        c \in CompareLanesArgs}

InitProcess ==
    /\ image = NoneVal
    /\ processed_image = NoneVal
    /\ lanes = << >>
    /\ bands = << >>
    /\ scan = NoScan
    /\ \E args \in ProcessArgs : result = Frame(args)
    /\ pc = "load_image"

Called(name) == [result EXCEPT !.calls = Append(@, name)]

\* The statement raised: the exception leaves process_gel_image.
Raise(name, exc) ==
    /\ pc' = "raised"
    /\ result' = [Called(name) EXCEPT !.ret = exc]

ProcessLoadImage ==
    /\ pc = "load_image"
    /\ LET o == load_image(result.args.image_path, processed_image)
       IN  /\ image' = o.image
           /\ processed_image' = o.processed_image
           /\ IF o.ret.kind = "raised"
              THEN Raise("load_image", o.ret)
              ELSE pc' = "detect_lanes" /\ result' = Called("load_image")
    /\ UNCHANGED <<lanes, bands, scan>>

ProcessDetectLanes ==
    /\ pc = "detect_lanes"
    /\ LET o == detect_lanes(processed_image, lanes, result.args.num_lanes,
                             NoneVal)
       IN  /\ lanes' = o.lanes
           /\ IF o.ret.kind = "raised"
              THEN Raise("detect_lanes", o.ret)
              ELSE pc' = "detect_all_bands" /\ result' = Called("detect_lanes")
    /\ UNCHANGED <<image, processed_image, bands, scan>>

ProcessDetectAllBands ==
    /\ pc = "detect_all_bands"
    /\ LET env == FrontEndOf(processed_image, lanes)
           o == detect_all_bands(processed_image, lanes, env, bands)
       IN  /\ bands' = o.bands
           /\ scan' = env
           /\ IF o.ret.kind = "raised"
              THEN Raise("detect_all_bands", o.ret)
              ELSE pc' = "compare_lanes" /\ result' = Called("detect_all_bands")
    /\ UNCHANGED <<image, processed_image, lanes>>

\* compare_lanes and len(compare_lanes) == 2
ComparisonRequested(c) == c # NoneVal /\ Len(c.value) = 2

\* comparison_result['similarity_score'] in the message printed after the
\* comparison.
PrintSimilarity(comparison_result) ==
    IF comparison_result = NoneVal THEN Raised("TypeError") ELSE NoneVal

ProcessCompareLanes ==
    /\ pc = "compare_lanes"
    /\ LET c == result.args.compare_lanes
       IN  IF ComparisonRequested(c)
           THEN LET r == compare_lanes(bands, c.value[1], c.value[2],
                                       DefaultTolerance)
                    printed == PrintSimilarity(r)
                IN  IF printed # NoneVal
                    THEN Raise("compare_lanes", printed)
                    ELSE /\ pc' = "visualize_analysis"
                         /\ result' = [Called("compare_lanes") EXCEPT
                                          !.comparison_result = r]
           ELSE pc' = "visualize_analysis" /\ UNCHANGED result
    /\ UNCHANGED <<image, processed_image, lanes, bands, scan>>

ProcessVisualize ==
    /\ pc = "visualize_analysis"
    /\ LET o == visualize_analysis(lanes, bands, result.comparison_result)
       IN  IF o # NoneVal
           THEN Raise("visualize_analysis", o)
           ELSE pc' = "generate_report" /\ result' = Called("visualize_analysis")
    /\ UNCHANGED <<image, processed_image, lanes, bands, scan>>

ProcessReport ==
    /\ pc = "generate_report"
    /\ LET report == generate_report(image, lanes, bands,
                                     result.comparison_result)
       IN  /\ pc' = "returned"
           /\ result' = [Called("generate_report") EXCEPT
                            !.ret = [kind |-> "processed", lanes |-> lanes,
                                     bands |-> bands,
                                     comparison |-> result.comparison_result,
                                     report |-> report]]
    /\ UNCHANGED <<image, processed_image, lanes, bands, scan>>

NextProcess ==
    \/ ProcessLoadImage
    \/ ProcessDetectLanes
    \/ ProcessDetectAllBands
    \/ ProcessCompareLanes
    \/ ProcessVisualize
    \/ ProcessReport

SpecProcess == InitProcess /\ [][NextProcess]_vars

\* The call reached the comparison with two lane ids of which at least one
\* is not a key of the band map.
LaneNotFound ==
    /\ result.op = "process_gel_image"
    /\ pc \in {"visualize_analysis", "generate_report", "returned", "raised"}
    /\ Len(result.calls) >= 3
    /\ result.calls[3] = "detect_all_bands"
    /\ ComparisonRequested(result.args.compare_lanes)
    /\ \/ ~DictHas(bands, result.args.compare_lanes.value[1])
       \/ ~DictHas(bands, result.args.compare_lanes.value[2])

\* C5: when process_gel_image is called with two lane ids of which at least
\* one is absent from the detected band map, the call does not raise: it
\* goes on with comparison None, and what it returns has comparison None
\* and the report.
C5_LaneNotFoundIsQuiet ==
    LaneNotFound =>
        /\ pc # "raised"
        /\ result.comparison_result = NoneVal
        /\ pc = "returned" =>
              /\ result.ret.comparison = NoneVal
              /\ result.ret.report.kind = "report"

\* What the program does instead: the call ends in TypeError at the
\* statement that prints the similarity.
C5_Raises ==
    /\ LaneNotFound
    /\ pc = "raised"
    /\ result.ret = Raised("TypeError")
    /\ result.calls[Len(result.calls)] = "compare_lanes"

----------------------------------------------------------------------------
(* detect_lanes on loaded grids of several widths, for the gap columns the
   peak search can return and for every kind of lane-count argument *)

MaxGaps == 2

MaxLaneCount == 7

WidthSlack == 7

LaneWidths == {MinImageSize, MinImageSize + 1, MinImageSize + WidthSlack}

\* find_peaks never returns the first or the last sample, returns its
\* peaks in ascending order, and with distance=width//20 keeps no two
\* peaks closer than that.
GapColumns(width) ==
    {1, width \div 5, width \div 5 + 1, width \div 3,
     width \div 2, width - 2}

GapChoices(width) ==
    {SortedSeq(S) : S \in {T \in SUBSET GapColumns(width) :
        /\ Cardinality(T) <= MaxGaps
        /\ \A a \in T, b \in T :
              a < b => b - a >= width \div LaneDistanceDivisor}}

\* A grid with gap columns is not blank.
LaneSource(width, gaps) ==
    [decodable |-> TRUE, height |-> MinImageSize, width |-> width,
     content |-> IF gaps = << >> THEN {} ELSE {Blob(0, width, MinImageSize \div 2)},
     gaps |-> gaps]

LaneCountArgs ==
    {NoneVal} \cup {[value |-> n] : n \in (-MaxLaneCount)..MaxLaneCount}
        \cup {[value |-> MinImageSize + WidthSlack + MaxLaneCount]}

ManualLanesArgs == {NoneVal, [value |-> << >>], [value |-> ManualLaneList]}

InitLanes ==
    /\ \E width \in LaneWidths : \E gaps \in GapChoices(width) :
          LET o == load_image(LaneSource(width, gaps), NoneVal)
          IN  image = o.image /\ processed_image = o.processed_image
    /\ lanes = << >>
    /\ bands = << >>
    /\ scan = NoScan
    /\ result = NoCall
    /\ pc = "idle"

NextLanes ==
    \E num_lanes \in LaneCountArgs, manual_lanes \in ManualLanesArgs :
        DetectLanes(num_lanes, manual_lanes)

SpecLanes == InitLanes /\ [][NextLanes]_vars

\* detect_lanes returned, and what it returned it detected itself.
ReturnedAutoLanes ==
    /\ result.op = "detect_lanes"
    /\ result.ret.kind = "lanes"
    /\ ~Truthy(result.args.manual_lanes)

Partition(lane_list, grid) ==
    /\ Len(lane_list) >= 1
    /\ lane_list[1].x1 = 0
    /\ \A k \in 1..(Len(lane_list) - 1) : lane_list[k].x2 = lane_list[k + 1].x1
    /\ lane_list[Len(lane_list)].x2 = grid.width
    /\ \A k \in 1..Len(lane_list) :
          /\ lane_list[k].id = k - 1
          /\ lane_list[k].x1 <= lane_list[k].x2
          /\ lane_list[k].width = lane_list[k].x2 - lane_list[k].x1
          /\ lane_list[k].y1 = 0
          /\ lane_list[k].y2 = grid.height

\* C6: whenever detect_lanes returns automatically detected lanes, they
\* are in left-to-right order, contiguous and exhaustive: the first starts
\* at column 0, each ends where the next starts, the last ends at the image
\* width, ids count from 0 in order, width is x2 - x1, and every lane
\* spans rows 0 to the image height.
C6_AutoLanesPartition ==
    ReturnedAutoLanes =>
        /\ result.ret.value = lanes
        /\ Partition(lanes, processed_image)

\* What the program does for a negative lane count on a grid without gap
\* columns: it returns no lane at all.
C6_NoLanes ==
    /\ ReturnedAutoLanes
    /\ result.args.num_lanes # NoneVal
    /\ result.args.num_lanes.value < 0
    /\ lanes = << >>

\* Every lane list that is not empty is such a partition.
C6_NonEmptyIsPartition ==
    (ReturnedAutoLanes /\ lanes # << >>) => Partition(lanes, processed_image)

----------------------------------------------------------------------------
(* detect_bands_in_lane over every answer the front end may give: every
   short profile sample by sample, and long profiles with several bumps *)

MaxProfileLen == 5

MaxSample == 2

LongRows == 40

\* Rows of the long lane where a bump may stand: beside both ends, two
\* closer than the peak distance, one in the middle.
LongCentres == {1, MinBandDistance + 1, MinBandDistance + 2, LongRows \div 2,
                LongRows - 2}

ShortProfiles(n) == [1..n -> 0..MaxSample]

AnswersOn(key, profiles) ==
    UNION {{[profile |-> p, peaks |-> q] : q \in PeakChoices(p)} :
              p \in {v \in profiles : ValidProfile(key, v)}}

BandAnswers(key) ==
    IF RegionRows(key) <= MaxProfileLen
    THEN AnswersOn(key, ShortProfiles(RegionRows(key)))
    ELSE AnswersOn(key, {BumpProfile(RegionRows(key), c) :
                             c \in SUBSET LongCentres})

BandSource ==
    [decodable |-> TRUE, height |-> MinImageSize, width |-> MinImageSize,
     content |-> {Blob(0, MinImageSize, MinImageSize \div 2)}, gaps |-> << >>]

\* Row ranges of a caller's lane: from row 0 or lower down, of every short
\* length, and one that runs past the last image row.
ShortRanges ==
    {[y1 |-> y1, y2 |-> y1 + n] : y1 \in {0, 3}, n \in 0..MaxProfileLen}
        \cup {[y1 |-> MinImageSize - 3, y2 |-> MinImageSize + 3]}

BandLanes(r) ==
    <<[id |-> 0, x1 |-> 0, x2 |-> MinImageSize \div 2, y1 |-> r.y1,
       y2 |-> r.y2, width |-> MinImageSize \div 2],
      [id |-> 1, x1 |-> MinImageSize \div 2, x2 |-> MinImageSize,
       y1 |-> MinImageSize - LongRows, y2 |-> MinImageSize,
       width |-> MinImageSize \div 2]>>

\* List indices in range from both ends, and out of range on both sides.
BandLaneIds == {-3, -2, -1, 0, 1, 2}

InitBands ==
    /\ LET o == load_image(BandSource, NoneVal)
       IN  image = o.image /\ processed_image = o.processed_image
    /\ \E r \in ShortRanges :
          lanes = detect_lanes(processed_image, << >>, NoneVal,
                               [value |-> BandLanes(r)]).lanes
    /\ bands = << >>
    /\ scan = NoScan
    /\ result = NoCall
    /\ pc = "idle"

\* One call on each analyzer: the call writes nothing of the analyzer.
NextBands ==
    /\ result = NoCall
    /\ \E lane_id \in BandLaneIds :
          LET keys == KeysRead(processed_image, lanes, lane_id)
          IN  \/ keys = {} /\ DetectBandsInLane(lane_id, NoScan)
              \/ \E key \in keys : \E answer \in BandAnswers(key) :
                    DetectBandsInLane(lane_id, [k \in {key} |-> answer])

SpecBands == InitBands /\ [][NextBands]_vars

ReturnedBands ==
    /\ result.op = "detect_bands_in_lane"
    /\ result.ret.kind = "bands"

InLane(band, lane) ==
    /\ lane.y1 <= band.top
    /\ band.top <= band.position
    /\ band.position <= band.bottom
    /\ band.bottom <= lane.y2

\* C7: every band detect_bands_in_lane produces for a lane lies inside it:
\* lane.y1 <= top <= position <= bottom <= lane.y2, whatever the inverted
\* profile, its threshold and the accepted peaks.
C7_BandInsideLane ==
    ReturnedBands =>
        \A k \in 1..Len(result.ret.value) :
            InLane(result.ret.value[k], LaneOf(lanes, result.args.lane_id))

\* Two bands in a lane that starts below row 0, one of them wider than
\* its peak row on both sides.
C7_Witness ==
    /\ ReturnedBands
    /\ Len(result.ret.value) >= 2
    /\ LaneOf(lanes, result.args.lane_id).y1 > 0
    /\ \E k \in 1..Len(result.ret.value) :
          /\ result.ret.value[k].top < result.ret.value[k].position
          /\ result.ret.value[k].position < result.ret.value[k].bottom

\* A band whose upward walk stopped at the first row of a lane that
\* starts below row 0.
C7_WitnessEdge ==
    /\ ReturnedBands
    /\ Len(result.ret.value) >= 1
    /\ LaneOf(lanes, result.args.lane_id).y1 > 0
    /\ result.ret.value[1].top = LaneOf(lanes, result.args.lane_id).y1
    /\ result.ret.value[1].top < result.ret.value[1].position

----------------------------------------------------------------------------
(* SpecMeasure: measure_bands over band maps with a ladder lane (key 0)
   and a sample lane (key 1).  measure_bands reads self.bands only; the
   maps are those detection leaves (rows ascending) and, with several
   ladder bands on one row, those only a caller can store in self.bands. *)

MaxLadder == 3

MaxSamples == 2

LongLadderStep == 40

MeasureRows == {20, 50, 300, 550, 600}

\* Row sequences in non-decreasing order.
RowSeqs(rows, max_len) ==
    {s \in UNION {[1..n -> rows] : n \in 0..max_len} :
        \A i \in 1..(Len(s) - 1) : s[i] <= s[i + 1]}

\* A ladder with as many bands as the size table has entries, and one
\* with one band more.
LongLadders ==
    {[k \in 1..n |-> LongLadderStep * k] :
        n \in {Len(standard_sizes), Len(standard_sizes) + 1}}

LadderRowSeqs == RowSeqs(MeasureRows, MaxLadder) \cup LongLadders

BandsAt(row_seq, lane_id) ==
    [k \in 1..Len(row_seq) |->
        Band(k - 1, row_seq[k], 4, row_seq[k] - 2, row_seq[k] + 2, 0, lane_id)]

MeasureSource ==
    [decodable |-> TRUE, height |-> 7 * MinImageSize, width |-> MinImageSize,
     content |-> {Blob(0, MinImageSize, MinImageSize \div 2)}, gaps |-> << >>]

InitMeasure ==
    /\ image = imread(MeasureSource)
    /\ processed_image = image
    /\ lanes = detect_lanes(image, << >>, [value |-> 2], NoneVal).lanes
    /\ scan = NoScan
    /\ \E ladder \in LadderRowSeqs, samples \in RowSeqs(MeasureRows, MaxSamples) :
          bands = DictSet(DictSet(<< >>, 0, BandsAt(ladder, 0)),
                          1, BandsAt(samples, 1))
    /\ result = NoCall
    /\ pc = "idle"

LadderArgs == {NoneVal, [value |-> 0], [value |-> 1], [value |-> 2]}

AllPositions(d) ==
    UNION {LadderPositions(d[k].value) : k \in 1..Len(d)}

\* The positions at which the floats' rounding can show in the estimate.
RoundingPositions(d, ladder_lane_id) ==
    IF LadderGiven(d, ladder_lane_id)
          /\ EnoughLadder(LadderBands(d, ladder_lane_id.value))
    THEN LET ladder_bands == LadderBands(d, ladder_lane_id.value)
             sizes == TableSubset(ladder_bands)
             positions == LadderPositions(ladder_bands)
         IN  {p \in AllPositions(d) :
                 RoundingMatters(MaxOf(sizes), MaxOf(sizes) - MinOf(sizes),
                                 p - MinOf(positions),
                                 MaxOf(positions) - MinOf(positions))}
    ELSE {}

\* The floats land low at none of the positions, at one, or at all: every
\* combination for any two positions is among these.
FpChoices(positions) == {{}, positions} \cup {{p} : p \in positions}

\* One call on each analyzer: the call writes nothing of the analyzer.
NextMeasure ==
    /\ result = NoCall
    /\ \E ladder_lane_id \in LadderArgs :
          \E fp_low \in FpChoices(RoundingPositions(bands, ladder_lane_id)) :
              MeasureBands(ladder_lane_id, fp_low)

SpecMeasure == InitMeasure /\ [][NextMeasure]_vars

----------------------------------------------------------------------------
(* Properties of measure_bands *)

IsMeasurement == result.op = "measure_bands" /\ result.ret.kind = "measurements"

\* The estimates measure_bands returned for the bands at `row`.
EstimatesAt(row) ==
    UNION {{result.ret.value[k].value[i].estimated_size_bp :
               i \in {j \in 1..Len(result.ret.value[k].value) :
                         result.ret.value[k].value[j].position_pixels = row}} :
              k \in 1..Len(result.ret.value)}

\* The ladder lane of the call holds exactly two bands, at rows 50 and
\* 550, and the map holds a band at row 300.
IsLadderScenario ==
    /\ IsMeasurement
    /\ result.args.ladder_lane_id # NoneVal
    /\ DictHas(bands, result.args.ladder_lane_id.value)
    /\ LET ladder_bands == DictGet(bands, result.args.ladder_lane_id.value)
       IN  /\ Len(ladder_bands) = 2
           /\ LadderPositions(ladder_bands) = {50, 550}
    /\ 300 \in AllPositions(bands)

\* C11 as stated: with the ladder lane's two bands at rows 50 and 550, a
\* band at row 300 is estimated at about 5125 bp.
C11_Original ==
    IsLadderScenario =>
        \A e \in EstimatesAt(300) : e # NoneVal /\ Abs(e.value - 5125) <= 1

\* C11: with the ladder lane's two bands at rows 50 and 550, a band at row
\* 300 is estimated at 9000 bp, the midpoint between 10000 and 8000, the
\* first two entries of the size table.
C11_MidpointOfFirstTwoSizes ==
    IsLadderScenario => EstimatesAt(300) = {[value |-> 9000]}

C11_Witness ==
    /\ IsLadderScenario
    /\ [value |-> 9000] \in EstimatesAt(300)

\* Every estimate of the call, over all lanes and bands.
AllEstimates ==
    UNION {{result.ret.value[k].value[i].estimated_size_bp :
               i \in 1..Len(result.ret.value[k].value)} :
              k \in 1..Len(result.ret.value)}

\* The call names a ladder lane that is in the band map.
CallLadder == LadderBands(bands, result.args.ladder_lane_id.value)

HasLadder ==
    /\ result.args.ladder_lane_id # NoneVal
    /\ DictHas(bands, result.args.ladder_lane_id.value)

\* C12: measure_bands returns a measurement for every band of every lane;
\* the estimate is null for every band when no ladder lane id is given,
\* when the id is no key of the band map, or when the ladder lane holds
\* fewer than 2 bands, and non-null for every band when the ladder lane
\* holds 2 or more bands.
C12_NullWithoutLadder ==
    IsMeasurement =>
        /\ Len(result.ret.value) = Len(bands)
        /\ \A k \in 1..Len(bands) :
              /\ result.ret.value[k].key = bands[k].key
              /\ Len(result.ret.value[k].value) = Len(bands[k].value)
        /\ IF HasLadder /\ Len(CallLadder) >= 2
           THEN NoneVal \notin AllEstimates
           ELSE AllEstimates \subseteq {NoneVal}

\* A ladder lane with a single band, and bands to measure: all null.
C12_Witness ==
    /\ IsMeasurement
    /\ HasLadder
    /\ Len(CallLadder) = 1
    /\ AllEstimates = {NoneVal}

\* A ladder lane with two or more bands: every band has an estimate.
C12_WitnessEstimated ==
    /\ IsMeasurement
    /\ HasLadder
    /\ Len(CallLadder) >= 2
    /\ AllEstimates # {}
    /\ NoneVal \notin AllEstimates

\* The ladder id is given but is no key of the band map: all null.
C12_WitnessAbsentLadder ==
    /\ IsMeasurement
    /\ result.args.ladder_lane_id # NoneVal
    /\ ~HasLadder
    /\ AllEstimates = {NoneVal}

\* C13: every non-null estimated_size_bp is an integer of at least 100,
\* for band positions inside, above and below the ladder's row range and
\* for a ladder whose bands all share one row.
C13_EstimateAtLeastFloor ==
    IsMeasurement =>
        \A e \in AllEstimates :
            e # NoneVal => e.value \in Int /\ e.value >= MinSizeBp

\* A band so far below the ladder's rows that the interpolation is
\* negative: its estimate is the floor.
C13_Witness ==
    /\ IsMeasurement
    /\ HasLadder
    /\ Len(CallLadder) >= 2
    /\ \E k \in 1..Len(bands) : \E i \in 1..Len(bands[k].value) :
          /\ bands[k].value[i].position > MaxOf(LadderPositions(CallLadder))
          /\ Interpolate(TableSubset(CallLadder), LadderPositions(CallLadder),
                         bands[k].value[i].position, {}) < 0
          /\ result.ret.value[k].value[i].estimated_size_bp
                 = [value |-> MinSizeBp]

\* A ladder of two or more bands on one row: every estimate is the
\* largest size of the table.
C13_WitnessDegenerate ==
    /\ IsMeasurement
    /\ HasLadder
    /\ Len(CallLadder) >= 2
    /\ Cardinality(LadderPositions(CallLadder)) = 1
    /\ AllEstimates = {[value |-> standard_sizes[1]]}

\* A band above the ladder's first row: its estimate exceeds the table.
C13_WitnessAbove ==
    /\ IsMeasurement
    /\ \E e \in AllEstimates : e # NoneVal /\ e.value > standard_sizes[1]

----------------------------------------------------------------------------
(* Properties of detect_lanes *)

ManualSupplied ==
    /\ result.op = "detect_lanes"
    /\ result.args.manual_lanes # NoneVal

\* C14: whenever a manual lane list is supplied to detect_lanes, the empty
\* list included, that list is what the call returns and what the
\* analyzer's lanes become, and no lane is detected automatically.
C14_ManualVerbatim ==
    ManualSupplied =>
        /\ result.ret = [kind |-> "lanes", value |-> result.args.manual_lanes.value]
        /\ lanes = result.args.manual_lanes.value

\* What the program does with an empty manual list on a loaded grid: it
\* detects lanes automatically.
C14_EmptyListDetects ==
    /\ ManualSupplied
    /\ result.args.manual_lanes.value = << >>
    /\ result.ret.kind = "lanes"
    /\ Len(lanes) >= 1

\* On an analyzer without a grid the empty manual list ends in an
\* exception.
C14_EmptyListRaises ==
    /\ ManualSupplied
    /\ result.args.manual_lanes.value = << >>
    /\ result.ret = Raised("AttributeError")

\* A manual list that is not empty is returned verbatim.
C14_NonEmptyVerbatim ==
    (ManualSupplied /\ result.args.manual_lanes.value # << >>) =>
        /\ result.ret = [kind |-> "lanes", value |-> result.args.manual_lanes.value]
        /\ lanes = result.args.manual_lanes.value

\* detect_lanes was called for automatic segmentation, on a loaded grid.
AutoCall ==
    /\ result.op = "detect_lanes"
    /\ ~Truthy(result.args.manual_lanes)
    /\ processed_image # NoneVal

\* C15: on a loaded grid of valid size automatic lane segmentation never
\* fails and returns at least one lane, whether or not a peak is found and
\* for every lane-count argument: none, or any integer, 0 and negative
\* ones included.
C15_AtLeastOneLane ==
    AutoCall =>
        /\ result.ret.kind = "lanes"
        /\ Len(result.ret.value) >= 1
        /\ lanes = result.ret.value

\* What the program does with lane count 0 on a grid without gap columns.
C15_ZeroCountRaises ==
    /\ AutoCall
    /\ result.args.num_lanes = [value |-> 0]
    /\ result.ret = Raised("ZeroDivisionError")

\* With a negative lane count on such a grid it returns no lane.
C15_NegativeCountEmpty ==
    /\ AutoCall
    /\ result.args.num_lanes # NoneVal
    /\ result.args.num_lanes.value < 0
    /\ result.ret = [kind |-> "lanes", value |-> << >>]

\* With a positive lane count, or none, or with a gap column found,
\* segmentation returns at least one lane.
C15_HoldsOtherwise ==
    (AutoCall /\ (\/ result.args.num_lanes = NoneVal
                  \/ result.args.num_lanes.value > 0
                  \/ Len(ColumnPeaks(processed_image)) > 0)) =>
        /\ result.ret.kind = "lanes"
        /\ Len(result.ret.value) >= 1

----------------------------------------------------------------------------
(* Properties of detect_all_bands *)

ReturnedBandMap ==
    /\ result.op = "detect_all_bands"
    /\ result.ret.kind = "bandmap"

\* The bands of a lane's own columns and rows, as the front end of Spec
\* shows them.
OwnBands(grid, lane) ==
    LET key == RegionKey(grid, lane)
    IN  IF RegionEmpty(key) THEN << >>
        ELSE ExtractBands(FrontEnd(key).profile, FrontEnd(key).peaks,
                          lane.y1, lane.id)

IdsArePositions(lane_list) ==
    \A k \in 1..Len(lane_list) : lane_list[k].id = k - 1

\* C16: after detect_all_bands, for every lane of the analyzer's lane
\* sequence, whatever ids the lanes carry, bands[lane.id] is the band
\* sequence detected in that lane's own columns and rows, every band in it
\* carries lane_id = lane.id, and the map's keys are in lane order.
C16_BandsOfOwnLane ==
    ReturnedBandMap =>
        /\ [k \in 1..Len(bands) |-> bands[k].key]
               = [k \in 1..Len(lanes) |-> lanes[k].id]
        /\ \A k \in 1..Len(lanes) :
              /\ DictGet(bands, lanes[k].id) = OwnBands(processed_image, lanes[k])
              /\ \A i \in 1..Len(DictGet(bands, lanes[k].id)) :
                    DictGet(bands, lanes[k].id)[i].lane_id = lanes[k].id

\* What the program does for a manual lane list whose ids are not the
\* list positions: a lane's entry holds the bands of another lane's region.
C16_OtherLanesBands ==
    /\ ReturnedBandMap
    /\ \E k \in 1..Len(lanes), j \in 1..Len(lanes) :
          /\ lanes[k].id = j - 1
          /\ j # k
          /\ OwnBands(processed_image, lanes[k]) # << >>
          /\ DictGet(bands, lanes[k].id) # OwnBands(processed_image, lanes[k])
          /\ DictGet(bands, lanes[k].id)
                 = ExtractBands(FrontEnd(RegionKey(processed_image, lanes[j])).profile,
                                FrontEnd(RegionKey(processed_image, lanes[j])).peaks,
                                lanes[j].y1, lanes[k].id)

\* Where every lane's id is its list position the claim holds.
C16_HoldsForPositionalIds ==
    (ReturnedBandMap /\ IdsArePositions(lanes)) =>
        /\ [k \in 1..Len(bands) |-> bands[k].key]
               = [k \in 1..Len(lanes) |-> lanes[k].id]
        /\ \A k \in 1..Len(lanes) :
              DictGet(bands, lanes[k].id) = OwnBands(processed_image, lanes[k])

\* The map detect_all_bands leaves on an analyzer that has this grid and
\* these lanes and an empty band map.
BandsFromScratch(grid, lane_list) ==
    detect_all_bands(grid, lane_list, FrontEndOf(grid, lane_list), << >>).bands

\* C17: band detection is idempotent: a detect_all_bands call leaves the
\* band map that the grid and the lanes determine, whatever the map held
\* before the call, so calling it again leaves the same map.
C17_Idempotent ==
    ReturnedBandMap =>
        /\ bands = BandsFromScratch(processed_image, lanes)
        /\ result.ret.value = bands
        /\ detect_all_bands(processed_image, lanes,
                            FrontEndOf(processed_image, lanes), bands).bands
               = bands

\* A call that left bands in two lanes.
C17_Witness ==
    /\ ReturnedBandMap
    /\ Len(bands) >= 2
    /\ \A k \in 1..Len(bands) : Len(bands[k].value) >= 2

\* A call after which no lane is left, on an analyzer that has an image.
C17_WitnessNoLanes ==
    /\ ReturnedBandMap
    /\ processed_image # NoneVal
    /\ lanes = << >>
    /\ bands = << >>

----------------------------------------------------------------------------
(* SpecOrder: the body of detect_all_bands' loop,
       self.bands[lane['id']] = self.detect_bands_in_lane(lane['id']),
   run once for every lane in any order.  result is the frame of the run:
   the list positions of the lanes still to do. *)

MaxOrderLanes == 5

\* A gel with bands in three column ranges and no gap column.
OrderSource ==
    [decodable |-> TRUE, height |-> MinImageSize, width |-> MinImageSize,
     content |-> {Blob(0, 33, 20), Blob(0, 33, 60), Blob(33, 66, 30),
                  Blob(66, 100, 40), Blob(66, 100, 80), Blob(0, 100, 50)},
     gaps |-> << >>]

\* Lanes as detect_lanes leaves them: for a lane count, or a manual list.
OrderLaneArgs ==
    {[num_lanes |-> [value |-> n], manual_lanes |-> NoneVal] :
        n \in 1..MaxOrderLanes}
        \cup {[num_lanes |-> NoneVal, manual_lanes |-> [value |-> ManualLaneList]]}

InitOrder ==
    /\ \E src \in {GelSource, OrderSource} :
          LET o == load_image(src, NoneVal)
          IN  image = o.image /\ processed_image = o.processed_image
    /\ \E a \in OrderLaneArgs :
          lanes = detect_lanes(processed_image, << >>, a.num_lanes,
                               a.manual_lanes).lanes
    /\ bands = ResetBands(<< >>)
    /\ scan = NoScan
    /\ result = [op |-> "detect_all_bands", pending |-> 1..Len(lanes),
                 ret |-> NoneVal]
    /\ pc = "detecting"

\* The loop body for the lane at list position k.
DetectLaneStep(k) ==
    /\ pc = "detecting"
    /\ k \in result.pending
    /\ LET env == FrontEndOf(processed_image, lanes)
           lane_bands == detect_bands_in_lane(processed_image, lanes,
                                              lanes[k].id, env)
       IN  IF lane_bands.kind = "raised"
           THEN /\ pc' = "raised"
                /\ result' = [result EXCEPT !.ret = lane_bands]
                /\ UNCHANGED <<bands, scan>>
           ELSE /\ bands' = DictSet(bands, lanes[k].id, lane_bands.value)
                /\ scan' = env
                /\ result' = [result EXCEPT !.pending = @ \ {k}]
                /\ pc' = "detecting"
    /\ UNCHANGED <<image, processed_image, lanes>>

\* return self.bands
ReturnBands ==
    /\ pc = "detecting"
    /\ result.pending = {}
    /\ pc' = "returned"
    /\ result' = [result EXCEPT !.ret = [kind |-> "bandmap", value |-> bands]]
    /\ UNCHANGED <<image, processed_image, lanes, bands, scan>>

NextOrder ==
    \/ \E k \in 1..MaxOrderLanes : DetectLaneStep(k)
    \/ ReturnBands

SpecOrder == InitOrder /\ [][NextOrder]_vars

\* Two maps with the same keys, each key with the same value.
SameContents(d1, d2) ==
    /\ DictKeys(d1) = DictKeys(d2)
    /\ \A k \in DictKeys(d1) : DictGet(d1, k) = DictGet(d2, k)

OrderIndependent ==
    pc = "returned" =>
        SameContents(bands, BandsFromScratch(processed_image, lanes))

StepsWriteOwnEntry ==
    \A k \in 1..MaxOrderLanes :
        DetectLaneStep(k) =>
            /\ UNCHANGED <<image, processed_image, lanes>>
            /\ \A id \in DictKeys(bands) \ {lanes[k].id} :
                  DictHas(bands', id) /\ DictGet(bands', id) = DictGet(bands, id)

\* C18: per-lane band detection has no cross-lane dependency: whatever
\* the order in which the per-lane detections ran, the band map they leave
\* has the contents the loop in lane order leaves; and no detection step
\* writes the image, the grid, the lanes or another lane's entry.
C18_NoCrossLaneDependency ==
    [](OrderIndependent) /\ [][StepsWriteOwnEntry]_vars

\* A run that did not go in lane order: the last lane's entry was written
\* first, and the map has bands in several lanes.
C18_Witness ==
    /\ pc = "returned"
    /\ Len(lanes) >= 3
    /\ bands[1].key = lanes[Len(lanes)].id
    /\ \E k \in 1..Len(bands) : Len(bands[k].value) >= 2
    /\ \E k, j \in 1..Len(bands) : bands[k].value # bands[j].value

----------------------------------------------------------------------------
(* A blank grid *)

\* The grid in use has no dark pixels at all.
BlankGrid == processed_image # NoneVal /\ processed_image.content = {}

LaneIds == {lanes[k].id : k \in 1..Len(lanes)}

\* The last call compared two lanes of the blank grid, on the band map
\* that detection leaves for the grid and the lanes in use.
ComparedBlankLanes ==
    /\ BlankGrid
    /\ result.op = "compare_lanes"
    /\ bands = BandsFromScratch(processed_image, lanes)
    /\ result.args.lane1_id \in LaneIds
    /\ result.args.lane2_id \in LaneIds

\* C19: on an all-zero grid of valid size, detect_all_bands leaves an
\* empty band sequence for every lane, and comparing any two of those
\* lanes returns a comparison (not None, not an exception) whose
\* similarity_score is 0 and whose matched_bands is 0.
C19_BlankGridScoresZero ==
    /\ (BlankGrid /\ ReturnedBandMap) =>
          \A k \in 1..Len(lanes) :
              /\ DictHas(bands, lanes[k].id)
              /\ DictGet(bands, lanes[k].id) = << >>
    /\ ComparedBlankLanes =>
          /\ result.ret.kind = "comparison"
          /\ result.ret.similarity_score = 0
          /\ result.ret.matched_bands = 0
          /\ result.ret.matches = << >>

\* Two different lanes of the six default lanes of the blank grid were
\* compared.
C19_Witness ==
    /\ ComparedBlankLanes
    /\ Len(lanes) = DefaultNumLanes
    /\ result.args.lane1_id # result.args.lane2_id
    /\ result.ret.kind = "comparison"
    /\ result.ret.similarity_score = 0

\* The blank grid's six lanes were detected: six empty band sequences.
C19_WitnessDetected ==
    /\ BlankGrid
    /\ ReturnedBandMap
    /\ Len(lanes) = DefaultNumLanes
    /\ Len(bands) = DefaultNumLanes

----------------------------------------------------------------------------
(* The greedy matcher, stated over index sets *)

\* The elements of s at the indices in idx, in the order of s.
Pick(s, idx) == [k \in 1..Cardinality(idx) |-> s[SortedSeq(idx)[k]]]

\* RefChoice(bands1, bands2, tolerance)[k] is the lane2 index the k-th
\* lane1 band takes, or 0: among the lane2 bands no earlier lane1 band
\* took and whose row is within the tolerance, one at the smallest row
\* distance, the earliest of them in lane2 order.
RefChoice(bands1, bands2, tolerance) ==
    LET Dist(k, i) == Abs(bands1[k].position - bands2[i].position)
        choice[k \in 1..Len(bands1)] ==
            LET taken == {choice[j] : j \in 1..(k - 1)}
                free == {i \in 1..Len(bands2) : i \notin taken}
                near == {i \in free : Dist(k, i) <= tolerance}
                nearest == {i \in near : \A j \in near : Dist(k, i) <= Dist(k, j)}
            IN  IF nearest = {} THEN 0 ELSE MinOf(nearest)
    IN  choice

ComparedBands1 == DictGet(bands, result.args.lane1_id)

ComparedBands2 == DictGet(bands, result.args.lane2_id)

ComparedChoice ==
    RefChoice(ComparedBands1, ComparedBands2, result.args.tolerance_pixels)

RefMatches(bands1, bands2, choice) ==
    Pick([k \in 1..Len(bands1) |->
             [band1 |-> bands1[k],
              band2 |-> IF choice[k] = 0 THEN bands1[k] ELSE bands2[choice[k]],
              distance |-> IF choice[k] = 0 THEN 0
                           ELSE Abs(bands1[k].position - bands2[choice[k]].position)]],
         {k \in 1..Len(bands1) : choice[k] # 0})

\* C20: compare_lanes returns what the one-pass greedy matcher gives:
\* taking the lane1 bands in order, each is matched to the unused lane2
\* band at the smallest row distance when that distance is within the
\* tolerance, and is unique to lane1 otherwise; matches is in lane1 order
\* and unique_lane2 is the lane2 bands never taken, in lane2 order.
C20_GreedyReference ==
    IsComparison =>
        LET bands1 == ComparedBands1
            bands2 == ComparedBands2
            choice == ComparedChoice
        IN  /\ result.ret.matches = RefMatches(bands1, bands2, choice)
            /\ result.ret.unique_lane1 =
                   Pick(bands1, {k \in 1..Len(bands1) : choice[k] = 0})
            /\ result.ret.unique_lane2 =
                   Pick(bands2, {i \in 1..Len(bands2) :
                                    \A k \in 1..Len(bands1) : choice[k] # i})

\* A lane1 band was matched to a lane2 band although a nearer lane2 band
\* exists, because an earlier lane1 band had taken the nearer one; and a
\* later lane1 band found no partner.
C20_Witness ==
    /\ IsComparison
    /\ result.ret.unique_lane1 # << >>
    /\ \E k \in 1..Len(ComparedBands1) :
          /\ ComparedChoice[k] # 0
          /\ \E j \in 1..(k - 1) :
                /\ ComparedChoice[j] # 0
                /\ Abs(ComparedBands1[k].position
                           - ComparedBands2[ComparedChoice[j]].position)
                     < Abs(ComparedBands1[k].position
                           - ComparedBands2[ComparedChoice[k]].position)

\* Two bands are matched and each lane keeps a band of its own.
C20_WitnessBothUnique ==
    /\ IsComparison
    /\ result.ret.matched_bands >= 2
    /\ result.ret.unique_lane1 # << >>
    /\ result.ret.unique_lane2 # << >>

\* A lane1 band has two unused lane2 bands at the same smallest distance:
\* the earlier one is taken.
C20_WitnessTie ==
    /\ IsComparison
    /\ \E m \in 1..Len(result.ret.matches) :
          \E i \in 1..Len(ComparedBands2) :
              /\ ComparedBands2[i].position > result.ret.matches[m].band2.position
              /\ Abs(result.ret.matches[m].band1.position - ComparedBands2[i].position)
                     = result.ret.matches[m].distance
              /\ \A k \in 1..Len(ComparedBands1) : ComparedChoice[k] # i

----------------------------------------------------------------------------
(* Greedy, lane1-anchored matching is not a global optimum *)

\* The row positions of a band sequence.
Positions(band_seq) == [k \in DOMAIN band_seq |-> band_seq[k].position]

\* Lane1 holds two bands, lane2 holds one band on the row of lane1's
\* second band, and lane1's first band is within the tolerance of it.
StealScenario ==
    /\ IsComparison
    /\ Len(ComparedBands1) = 2
    /\ Len(ComparedBands2) = 1
    /\ ComparedBands1[2].position = ComparedBands2[1].position
    /\ ComparedBands1[2].position - ComparedBands1[1].position
           <= result.args.tolerance_pixels

\* The same two lanes compared the other way round.
Reversed ==
    compare_lanes(bands, result.args.lane2_id, result.args.lane1_id,
                  result.args.tolerance_pixels)

\* C21: the matching is greedy, not a global optimum: when lane1 holds
\* bands on rows p < q, lane2 holds one band on row q and q - p is within
\* the tolerance, the first lane1 band takes the lane2 band at distance
\* q - p although the second lane1 band is at distance 0 from it, and the
\* second lane1 band is left unmatched; comparing the lanes the other way
\* round matches the two bands on row q and leaves the band on row p
\* unmatched instead.
C21_GreedySteals ==
    StealScenario =>
        /\ Len(result.ret.matches) = 1
        /\ result.ret.matches[1].band1 = ComparedBands1[1]
        /\ result.ret.matches[1].band2 = ComparedBands2[1]
        /\ result.ret.matches[1].distance > 0
        /\ result.ret.unique_lane1 = <<ComparedBands1[2]>>
        /\ result.ret.unique_lane2 = << >>
        /\ Len(Reversed.matches) = 1
        /\ Reversed.matches[1].band2 = ComparedBands1[2]
        /\ Reversed.matches[1].distance = 0
        /\ Reversed.unique_lane1 = << >>
        /\ Reversed.unique_lane2 = <<ComparedBands1[1]>>

\* Lane1 has bands on rows 5 and 15, lane2 one band on row 15, and the
\* tolerance is 10.
C21_Witness ==
    /\ StealScenario
    /\ Positions(ComparedBands1) = <<5, 15>>
    /\ Positions(ComparedBands2) = <<15>>
    /\ result.args.tolerance_pixels = DefaultTolerance
    /\ Positions(result.ret.unique_lane1) = <<15>>
    /\ Positions(Reversed.unique_lane2) = <<5>>

----------------------------------------------------------------------------
(* The number of automatically detected lanes *)

\* The lane count the call asks for when no gap column is found.
RequestedLanes ==
    IF result.args.num_lanes = NoneVal THEN DefaultNumLanes
    ELSE result.args.num_lanes.value

\* The lanes lie between consecutive entries of the boundary list.
LanesBetween(lane_list, boundaries) ==
    /\ Len(lane_list) = Len(boundaries) - 1
    /\ \A k \in 1..Len(lane_list) :
          /\ lane_list[k].x1 = boundaries[k]
          /\ lane_list[k].x2 = boundaries[k + 1]

\* n lanes whose widths differ by at most one column.
EqualWidthLanes(lane_list, n) ==
    /\ Len(lane_list) = n
    /\ \A j \in 1..Len(lane_list), k \in 1..Len(lane_list) :
          Abs(lane_list[j].width - lane_list[k].width) <= 1

LaneCountRule ==
    /\ result.ret.kind = "lanes"
    /\ lanes = result.ret.value
    /\ LET peaks == ColumnPeaks(processed_image)
       IN  IF Len(peaks) > 0
           THEN LanesBetween(lanes, <<0>> \o peaks \o <<processed_image.width>>)
           ELSE EqualWidthLanes(lanes, RequestedLanes)

\* C22: automatic segmentation returns (number of gap peaks) + 1 lanes
\* with boundaries [0] + peak columns + [width] whenever a peak is found,
\* whatever the lane-count argument; and when no peak is found it returns
\* exactly num_lanes lanes (6 when num_lanes is not given) whose widths
\* differ by at most one column.
C22_LaneCount == AutoCall => LaneCountRule

\* What the program does with lane count -1 on a grid without gap
\* columns: the call returns, with no lanes.
C22_NegativeCount ==
    /\ AutoCall
    /\ ColumnPeaks(processed_image) = << >>
    /\ RequestedLanes = -1
    /\ result.ret.kind = "lanes"
    /\ Len(lanes) = 0

\* With lane count 0 on such a grid the call raises and returns no list.
C22_ZeroCount ==
    /\ AutoCall
    /\ ColumnPeaks(processed_image) = << >>
    /\ RequestedLanes = 0
    /\ result.ret.kind # "lanes"

\* The rule holds when a gap column is found, or the lane count is
\* positive or not given.
C22_HoldsForPositiveCount ==
    (AutoCall /\ (Len(ColumnPeaks(processed_image)) > 0 \/ RequestedLanes > 0))
        => LaneCountRule

\* The lane count is ignored when gap columns are found: two gap columns
\* and a lane count of 7 give three lanes.
C22_WitnessPeaksWin ==
    /\ AutoCall
    /\ Len(ColumnPeaks(processed_image)) = 2
    /\ RequestedLanes = 7
    /\ Len(lanes) = 3

\* Seven lanes on a grid 107 columns wide: widths 15 and 16.
C22_WitnessUnequal ==
    /\ AutoCall
    /\ ColumnPeaks(processed_image) = << >>
    /\ RequestedLanes = 7
    /\ Len(lanes) = 7
    /\ \E j \in 1..7, k \in 1..7 : lanes[j].width = lanes[k].width + 1

----------------------------------------------------------------------------
(* The extent of a band *)

\* The inverted profile the last detect_bands_in_lane call read.
ScannedProfile ==
    scan[RegionKey(processed_image, LaneOf(lanes, result.args.lane_id))].profile

\* value > threshold * 0.5 on a local row of the scanned profile
AboveHalf(row) == 8 * At(ScannedProfile, row) > Percentile75x4(ScannedProfile)

\* The local rows of a band's top and bottom.
LocalTop(band) == band.top - LaneOf(lanes, result.args.lane_id).y1

LocalBottom(band) == band.bottom - LaneOf(lanes, result.args.lane_id).y1

HalfThresholdExtent(band) ==
    /\ \A row \in (LocalTop(band) + 1)..(LocalBottom(band) - 1) : AboveHalf(row)
    /\ LocalTop(band) = 0 \/ ~AboveHalf(LocalTop(band))
    /\ LocalBottom(band) = Len(ScannedProfile) - 1 \/ ~AboveHalf(LocalBottom(band))
    /\ band.width = band.bottom - band.top

\* C23: for every accepted peak the band's extent is the half-threshold
\* walk's: every local row strictly between top and bottom has an
\* inverted-profile value above threshold * 0.5, top is the lane's first
\* row or a row whose value is at most threshold * 0.5, bottom is the
\* lane's last row or such a row, and width = bottom - top.
C23_HalfThresholdExtent ==
    ReturnedBands =>
        \A k \in 1..Len(result.ret.value) : HalfThresholdExtent(result.ret.value[k])

\* A band three rows or more wide whose walks both stopped inside the
\* lane, on rows at or below half the threshold.
C23_Witness ==
    /\ ReturnedBands
    /\ \E k \in 1..Len(result.ret.value) :
          LET band == result.ret.value[k]
          IN  /\ band.width >= 3
              /\ LocalTop(band) > 0
              /\ LocalBottom(band) < Len(ScannedProfile) - 1
              /\ ~AboveHalf(LocalTop(band))
              /\ ~AboveHalf(LocalBottom(band))

\* A band whose downward walk ran into the last row of the lane, a row
\* above half the threshold.
C23_WitnessLastRow ==
    /\ ReturnedBands
    /\ \E k \in 1..Len(result.ret.value) :
          /\ LocalBottom(result.ret.value[k]) = Len(ScannedProfile) - 1
          /\ AboveHalf(Len(ScannedProfile) - 1)

\* A band whose upward walk ran into the first row of the lane, a row
\* above half the threshold.
C23_WitnessFirstRow ==
    /\ ReturnedBands
    /\ \E k \in 1..Len(result.ret.value) :
          /\ LocalTop(result.ret.value[k]) = 0
          /\ AboveHalf(0)

----------------------------------------------------------------------------
(* The order of the stages of process_gel_image *)

IsPrefix(s, t) == Len(s) <= Len(t) /\ \A k \in 1..Len(s) : s[k] = t[k]

\* The calls of a complete run, with and without a comparison.
StageOrder(with_comparison) ==
    IF with_comparison
    THEN <<"load_image", "detect_lanes", "detect_all_bands", "compare_lanes",
           "visualize_analysis", "generate_report">>
    ELSE <<"load_image", "detect_lanes", "detect_all_bands",
           "visualize_analysis", "generate_report">>

\* The source cannot be decoded, or is smaller than 100 in height or width.
LoadFails(src) ==
    \/ ~src.decodable
    \/ src.height < 100
    \/ src.width < 100

\* The calls made so far are the first stages of the order, the stage the
\* call stands at is the next one, and a call that returned made them all.
StagesInOrder ==
    LET order == StageOrder(ComparisonRequested(result.args.compare_lanes))
    IN  /\ IsPrefix(result.calls, order)
        /\ pc = "returned" => result.calls = order
        /\ pc = "compare_lanes" =>
              result.calls = <<"load_image", "detect_lanes", "detect_all_bands">>
        /\ pc \notin {"returned", "raised", "compare_lanes"} =>
              /\ Len(result.calls) < Len(order)
              /\ order[Len(result.calls) + 1] = pc

\* A failed load ends the call with the error, before any other stage.
FailedLoadAborts ==
    (LoadFails(result.args.image_path) /\ pc # "load_image") =>
        /\ pc = "raised"
        /\ result.ret = Raised("ValueError")
        /\ result.calls = <<"load_image">>
        /\ processed_image = NoneVal
        /\ lanes = << >>
        /\ bands = << >>
        /\ result.comparison_result = NoneVal

\* C24: in process_gel_image the stages run strictly in the order load,
\* lane segmentation, band detection for all lanes, comparison, report,
\* each starting only after its predecessor has completed; when loading
\* fails (image undecodable, or smaller than 100 in height or width) the
\* call aborts with an error and no segmentation, band detection or
\* comparison runs.
C24_StagesInOrder == StagesInOrder /\ FailedLoadAborts

\* A call with a comparison ran all six stages and returned.
C24_Witness ==
    /\ pc = "returned"
    /\ result.calls = StageOrder(TRUE)
    /\ result.comparison_result # NoneVal

\* A call on the image that is too narrow ended in the load's error.
C24_WitnessNarrow ==
    /\ pc = "raised"
    /\ result.args.image_path = NarrowSource
    /\ result.calls = <<"load_image">>

\* A call on an image that does not decode ended in the load's error.
C24_WitnessUndecodable ==
    /\ pc = "raised"
    /\ result.args.image_path = Undecodable
    /\ result.calls = <<"load_image">>

----------------------------------------------------------------------------
(* A ladder with more bands than the size table has entries *)

\* The call's ladder lane holds more bands than the table has sizes.
LongLadderCall ==
    /\ IsMeasurement
    /\ HasLadder
    /\ Len(CallLadder) > 13

\* The estimate interpolated over the whole table, 10000 down to 250, for
\* a band at `position`: the integer part, floored at 100.
WholeTableEstimate(position, low) ==
    LET top == MinOf(LadderPositions(CallLadder))
        pos_range == MaxOf(LadderPositions(CallLadder)) - top
        whole == IF pos_range > 0
                 THEN TruncDiv(10000 * pos_range - (position - top) * (10000 - 250),
                               pos_range)
                 ELSE 10000
    IN  Max2(100, whole - low)

\* C25: when the ladder lane holds more bands than the size table has
\* entries (13), measure_bands does not fail and every estimate is the one
\* interpolated over the whole table, 10000 down to 250, as if the band
\* count were clamped to the table's length (where the floats land just
\* below a whole number, one less).
C25_LongLadderUsesWholeTable ==
    LongLadderCall =>
        \A k \in 1..Len(bands) : \A i \in 1..Len(bands[k].value) :
            LET position == bands[k].value[i].position
                e == result.ret.value[k].value[i].estimated_size_bp
            IN  /\ e # NoneVal
                /\ IF position \in result.args.fp_low
                   THEN e.value \in {WholeTableEstimate(position, 0),
                                     WholeTableEstimate(position, 1)}
                   ELSE e.value = WholeTableEstimate(position, 0)

\* A ladder of 14 bands: its first band is estimated at 10000 bp, its
\* last band at 250 bp, and one between them strictly between.
C25_Witness ==
    /\ LongLadderCall
    /\ Len(CallLadder) = 14
    /\ [value |-> 10000] \in AllEstimates
    /\ [value |-> 250] \in AllEstimates
    /\ \E e \in AllEstimates : e.value > 250 /\ e.value < 10000

----------------------------------------------------------------------------
(* SpecSession: one analyzer, with load_image, detect_lanes,
   detect_all_bands, compare_lanes and measure_bands called in any order *)

SessionLadderArgs == {NoneVal, [value |-> 0]}

NextSession ==
    \/ Next
    \/ \E ladder_lane_id \in SessionLadderArgs :
          \E fp_low \in FpChoices(RoundingPositions(bands, ladder_lane_id)) :
              MeasureBands(ladder_lane_id, fp_low)

SpecSession == Init /\ [][NextSession]_vars

\* The lane of the current lane list that carries the id.
LaneWithId(lane_id) == CHOOSE lane \in SeqRange(lanes) : lane.id = lane_id

\* The band map's keys are ids of current lanes, and every entry is what
\* detection finds in the current grid for the current lane with that id.
BandsDescribeLanes ==
    /\ DictKeys(bands) \subseteq LaneIds
    /\ \A k \in 1..Len(bands) :
          /\ processed_image # NoneVal
          /\ bands[k].value = OwnBands(processed_image, LaneWithId(bands[k].key))

\* C26: in every state that calls of load_image, detect_lanes,
\* detect_all_bands, measure_bands and compare_lanes can reach, the band
\* map describes the current lanes: its keys are ids of current lanes and
\* every stored band sequence is the one detected from the current grid in
\* the current lane with that id, so compare_lanes never answers from the
\* bands of an earlier segmentation or an earlier image.
C26_BandsDescribeLanes == BandsDescribeLanes

\* What the program does: after another image is loaded, compare_lanes
\* still answers from the bands of the image before it.  The grid is
\* blank, and the comparison finds a matched pair of bands.
C26_StaleComparison ==
    /\ result.op = "compare_lanes"
    /\ result.ret.kind = "comparison"
    /\ result.ret.matched_bands >= 1
    /\ processed_image # NoneVal
    /\ processed_image.content = {}

\* After another segmentation the band map keeps keys that are no ids of
\* the current lanes.
C26_StaleKeys ==
    /\ result.op = "detect_lanes"
    /\ result.ret.kind = "lanes"
    /\ ~(DictKeys(bands) \subseteq LaneIds)

\* Right after a detect_all_bands call on lanes whose ids are their list
\* positions, the band map does describe the current lanes.
C26_HoldsAfterDetection ==
    (ReturnedBandMap /\ IdsArePositions(lanes)) =>
        /\ DictKeys(bands) = LaneIds
        /\ BandsDescribeLanes

----------------------------------------------------------------------------
(* A load_image call that fails *)

\* The step is a load_image call that raised.
FailedLoadStep ==
    /\ result' # result
    /\ result'.op = "load_image"
    /\ result'.ret.kind = "raised"

\* The stored image and the processed grid come from the same source.
SameSourceImage == processed_image = image

\* C27: a load_image call that fails (source undecodable, or decoded image
\* smaller than 100 in height or width) leaves the analyzer unchanged:
\* image, processed grid, lanes and bands are what they were before the
\* call, so the stored image and the processed grid always come from the
\* same source image.
C27_FailedLoadChangesNothing ==
    /\ [][FailedLoadStep => UNCHANGED <<image, processed_image, lanes, bands>>]_vars
    /\ [](SameSourceImage)

\* What the program does: after a gel was loaded, a load of a source that
\* does not decode raises, and leaves image None beside the gel's grid.
C27_ImageOverwritten ==
    /\ result.op = "load_image"
    /\ result.ret = Raised("ValueError")
    /\ image = NoneVal
    /\ processed_image # NoneVal

\* A load of an image that is too small raises, and leaves the small
\* image stored beside the grid of the image before it.
C27_SmallImageKept ==
    /\ result.op = "load_image"
    /\ result.ret = Raised("ValueError")
    /\ image # NoneVal
    /\ image.height < MinImageSize
    /\ processed_image # NoneVal
    /\ processed_image # image

\* A failed load does leave the processed grid, the lanes and the bands
\* as they were.
C27_FailedLoadKeepsGrid ==
    [][FailedLoadStep => UNCHANGED <<processed_image, lanes, bands>>]_vars

----------------------------------------------------------------------------
(* The number of matches grows with the tolerance *)

\* The same two lanes compared at another tolerance.
ComparedAt(tolerance_pixels) ==
    compare_lanes(bands, result.args.lane1_id, result.args.lane2_id,
                  tolerance_pixels)

\* C28: for fixed lane1 and lane2 band sequences the number of matches
\* compare_lanes returns, and with it similarity_score, does not decrease
\* when tolerance_pixels grows: t1 <= t2 implies matched_bands at t1 <=
\* matched_bands at t2.
C28_MonotoneInTolerance ==
    IsComparison =>
        \A t \in Tolerances :
            result.args.tolerance_pixels <= t =>
                /\ result.ret.matched_bands <= ComparedAt(t).matched_bands
                /\ result.ret.similarity_score <= ComparedAt(t).similarity_score

\* A comparison with a match and a band left over, which a larger
\* tolerance matches as well.
C28_Witness ==
    /\ IsComparison
    /\ result.ret.matched_bands >= 1
    /\ result.ret.unique_lane1 # << >>
    /\ \E t \in Tolerances :
          /\ result.args.tolerance_pixels < t
          /\ result.ret.matched_bands < ComparedAt(t).matched_bands

\* The larger tolerance lets an earlier lane1 band take the lane2 band
\* that a later lane1 band is matched to at the smaller one; the number of
\* matches is the same.
C28_WitnessSteal ==
    /\ IsComparison
    /\ result.ret.matched_bands >= 1
    /\ \E t \in Tolerances :
          /\ result.args.tolerance_pixels < t
          /\ result.ret.matched_bands = ComparedAt(t).matched_bands
          /\ result.ret.matches[1].band2 = ComparedAt(t).matches[1].band2
          /\ result.ret.matches[1].band1 # ComparedAt(t).matches[1].band1

----------------------------------------------------------------------------
(* The estimate falls as the row grows *)

\* The call's ladder lane holds two or more bands.
LadderCall ==
    /\ IsMeasurement
    /\ HasLadder
    /\ Len(CallLadder) >= 2

\* The bands of the map, as (lane index, band index) pairs.
BandSlots == {<<k, i>> \in (1..Len(bands)) \X (1..MaxOf({Len(bands[k].value) : k \in 1..Len(bands)} \cup {0})) :
                 i <= Len(bands[k].value)}

SlotPosition(slot) == bands[slot[1]].value[slot[2]].position

SlotEstimate(slot) == result.ret.value[slot[1]].value[slot[2]].estimated_size_bp

\* The largest and the smallest size of the table's first entries, as
\* many as the ladder has bands.
LargestSize == standard_sizes[1]

SmallestSize == standard_sizes[Min2(Len(CallLadder), Len(standard_sizes))]

\* C29: for a ladder lane with 2 or more bands the estimated size does
\* not grow with the band's row: p1 <= p2 implies size(p1) >= size(p2); a
\* band on the ladder's smallest row gets the largest size of the table
\* subset, and a band on the ladder's largest row, when the two rows
\* differ, gets the smallest size of the subset.
C29_MonotoneInPosition ==
    LadderCall =>
        LET first_row == MinOf(LadderPositions(CallLadder))
            last_row == MaxOf(LadderPositions(CallLadder))
        IN  /\ \A a \in BandSlots, b \in BandSlots :
                  SlotPosition(a) <= SlotPosition(b) =>
                      SlotEstimate(a).value >= SlotEstimate(b).value
            /\ \A a \in BandSlots :
                  SlotPosition(a) = first_row =>
                      SlotEstimate(a).value = LargestSize
            /\ \A a \in BandSlots :
                  (SlotPosition(a) = last_row /\ first_row < last_row) =>
                      SlotEstimate(a).value = SmallestSize

\* A ladder of three bands on different rows and sample bands whose
\* estimates differ: bands on the first and on the last ladder row, and a
\* band between them with an estimate strictly between theirs.
C29_Witness ==
    /\ LadderCall
    /\ Len(CallLadder) = 3
    /\ \E a \in BandSlots, b \in BandSlots, c \in BandSlots :
          /\ SlotPosition(a) = MinOf(LadderPositions(CallLadder))
          /\ SlotPosition(c) = MaxOf(LadderPositions(CallLadder))
          /\ SlotPosition(a) < SlotPosition(b)
          /\ SlotPosition(b) < SlotPosition(c)
          /\ SlotEstimate(a).value > SlotEstimate(b).value
          /\ SlotEstimate(b).value > SlotEstimate(c).value
          /\ SlotEstimate(c).value = standard_sizes[3]

\* The floats land below a whole estimate at one row and not at the
\* rows beside it: the order of the estimates is kept.
C29_WitnessRounded ==
    /\ LadderCall
    /\ \E a \in BandSlots :
          /\ SlotPosition(a) \in result.args.fp_low
          /\ SlotEstimate(a).value > MinSizeBp
          /\ SlotEstimate(a).value
                 = Interpolate(TableSubset(CallLadder), LadderPositions(CallLadder),
                               SlotPosition(a), {}) - 1

----------------------------------------------------------------------------
(* Ties between lane2 bands *)

\* The place of a band in the compared lane2 sequence.
Lane2Index(band) == CHOOSE i \in 1..Len(ComparedBands2) : ComparedBands2[i] = band

\* The lane2 places taken by the matches before match number m.
TakenBefore(m) == {Lane2Index(result.ret.matches[j].band2) : j \in 1..(m - 1)}

\* The lane2 places not yet taken at match m whose band is as near to
\* the match's lane1 band as its partner is.
TiedAt(m) ==
    {i \in 1..Len(ComparedBands2) :
        /\ i \notin TakenBefore(m)
        /\ Abs(result.ret.matches[m].band1.position - ComparedBands2[i].position)
               = result.ret.matches[m].distance}

\* C30: when several unused lane2 bands are equally distant from a lane1
\* band and within the tolerance, compare_lanes matches the one that comes
\* first in lane2's sequence; the result is a function of the two band
\* sequences and the tolerance.
C30_FirstOfTiedBands ==
    IsComparison =>
        /\ \A m \in 1..Len(result.ret.matches) :
              Lane2Index(result.ret.matches[m].band2) = MinOf(TiedAt(m))
        /\ result.ret = compare_lanes(bands, result.args.lane1_id,
                                      result.args.lane2_id,
                                      result.args.tolerance_pixels)

\* A lane1 band between two unused lane2 bands, equally distant and
\* within the tolerance: it is matched to the upper one, and the lower one
\* is left to a later lane1 band or to unique_lane2.
C30_Witness ==
    /\ IsComparison
    /\ \E m \in 1..Len(result.ret.matches) :
          /\ Cardinality(TiedAt(m)) = 2
          /\ result.ret.matches[m].distance > 0
          /\ result.ret.matches[m].distance <= result.args.tolerance_pixels
          /\ result.ret.matches[m].band2.position
                 < result.ret.matches[m].band1.position

====
